---- MODULE Spec2Model ----
(***************************************************************************)
(* Boundary-propagation engine of yastn/tn/mps/_env_auxiliary.py:          *)
(* the bond-keyed cache F of an environment (Env2, _Env_mps_mpo_mps), the  *)
(* per-reference caches Fort of MpsProjector, and the operations           *)
(* update_env_, setup_, clear_site_, measure, Heff2 and _project_ort.      *)
(* Tensors are dense arrays of Gaussian integers, so that every            *)
(* contraction of the source is computed entry by entry.                   *)
(***************************************************************************)
EXTENDS Integers, Sequences, FiniteSets, TLC

\* ---------------------------------------------------------------- bounds
MaxN == 3          \* longest chain of a plain-overlap environment
MaxNOp == 2        \* longest chain of an operator-sandwich environment
MaxSeed == 2       \* number of distinct pseudo-random chains per role
MaxRefs == 2       \* largest number of reference states of a projector
MaxClear == 2      \* most sites handed to one clear_site_ call
MaxSweepN == 6     \* longest chain of the two-sweep scenario
MaxVal == 2        \* largest entry of a tensor handed to the projector
MaxGates == 3      \* longest list of local or of nearest-neighbour gates
MaxSweeps == 3      \* sweeps of the driver after the first setup_
MaxCtmSweeps == 4   \* largest max_sweeps handed to ctmrg_
MaxStep == 3        \* largest iterator_step handed to ctmrg_
MaxTol == 2         \* levels of corner_tol and of max_dsv
MaxIter == 3        \* largest max_iter handed to tu_single_optimization
MaxErr == 2         \* levels of the truncation errors
MaxOps == 3        \* most operators handed to sign_canonical_order
MaxSite == 2       \* last site in the fermionic order

\* ------------------------------------------------------ program constants
Dmax == 2          \* default bond dimension of a random chain
PhysDim == 2       \* default physical dimension of a random chain

\* ------------------------------------------------------ complex numbers
CZero == <<0, 0>>
COne == <<1, 0>>
CAdd(a, b) == <<a[1] + b[1], a[2] + b[2]>>
CNeg(a) == <<0 - a[1], 0 - a[2]>>
CMul(a, b) == <<a[1] * b[1] - a[2] * b[2], a[1] * b[2] + a[2] * b[1]>>
CConj(a) == <<a[1], 0 - a[2]>>

RECURSIVE CSumOver(_, _)
CSumOver(f, S) ==
    IF S = {}
    THEN CZero
    ELSE LET t == CHOOSE t \in S : TRUE
         IN  CAdd(f[t], CSumOver(f, S \ {t}))

RECURSIVE CSumTo(_, _)
CSumTo(f, k) == IF k = 0 THEN CZero ELSE CAdd(CSumTo(f, k - 1), f[k])

\* ------------------------------------------------------------- tensors
\* a tensor is its shape and its entries, indexed by tuples counted from 1
Idx(shape) ==
    CASE Len(shape) = 0 -> {<<>>}
      [] Len(shape) = 1 -> {<<i>> : i \in 1..shape[1]}
      [] Len(shape) = 2 -> (1..shape[1]) \X (1..shape[2])
      [] Len(shape) = 3 -> (1..shape[1]) \X (1..shape[2]) \X (1..shape[3])
      [] Len(shape) = 4 -> (1..shape[1]) \X (1..shape[2]) \X (1..shape[3]) \X (1..shape[4])

Tensor(shape, val) == [shape |-> shape, val |-> val]

Conj(T) == [shape |-> T.shape, val |-> [t \in DOMAIN T.val |-> CConj(T.val[t])]]

Scale(x, T) == [shape |-> T.shape, val |-> [t \in DOMAIN T.val |-> CMul(x, T.val[t])]]

Eye(D1, D2) == Tensor(<<D1, D2>>, [t \in Idx(<<D1, D2>>) |-> IF t[1] = t[2] THEN COne ELSE CZero])

Ones(shape) == Tensor(shape, [t \in Idx(shape) |-> COne])

ToNumber(T) == T.val[<<>>]

\* -------------------------------------------------------------- chains
\* pseudo-random entries in {-1, 0, 1} + i {-1, 0, 1}, fixed by a seed
RandEntry(g, n, t) ==
    LET h == g * 7 + n * 5 + t[1] * 3 + t[2] * 2 + t[3] * 11 + t[1] * t[2] * t[3]
        k == g * 3 + n * 2 + t[1] + t[2] * 5 + t[3] * 7 + g * t[2] * t[1]
    IN  <<(h % 3) - 1, (k % 3) - 1>>

\* a chain is held by its length, the seed of its site tensors and its factor
mps_random(N, g) == [N |-> N, g |-> g, factor |-> <<g, g - 1>>]

\* a normalized product state (seed 0): bond dimension 1, one basis state per
\* site with amplitude i on even sites and 1 on odd sites
product_mps(N) == [N |-> N, g |-> 0, factor |-> COne]

\* MpsMpoOBC.__getitem__ for a state: site tensor n, legs (left, physical, right)
site(psi, n) ==
    LET Dl == IF n > 0 /\ psi.g # 0 THEN Dmax ELSE 1
        Dr == IF n < psi.N - 1 /\ psi.g # 0 THEN Dmax ELSE 1
    IN  Tensor(<<Dl, PhysDim, Dr>>, [t \in Idx(<<Dl, PhysDim, Dr>>) |->
          IF psi.g # 0 THEN RandEntry(psi.g, n, t)
          ELSE IF t[2] # (n % PhysDim) + 1 THEN CZero
          ELSE IF n % 2 = 0 THEN <<0, 1>> ELSE COne])

virtual_leg(psi, end) ==
    IF end = "first" THEN site(psi, 0).shape[1] ELSE site(psi, psi.N - 1).shape[3]

sweep(psi, to) ==
    IF to = "last" THEN [i \in 1..psi.N |-> i - 1] ELSE [i \in 1..psi.N |-> psi.N - i]

\* ------------------------------------------------- the cache as a dict
\* the bond read and the bond written by an update at site n toward `to`
Pred(n, to) == IF to = "last" THEN <<n - 1, n>> ELSE <<n + 1, n>>

Succ(n, to) == IF to = "last" THEN <<n, n + 1>> ELSE <<n, n - 1>>

Rev(bd) == <<bd[2], bd[1]>>

Has(F, k) == k \in DOMAIN F

Put(F, k, v) == [x \in (DOMAIN F) \cup {k} |-> IF x = k THEN v ELSE F[x]]

Pop(F, k) == [x \in (DOMAIN F) \ {k} |-> F[x]]

\* ------------------------------------------- two-layer contraction step
Update2First(Fr, braA, ketA) ==
    Tensor(<<ketA.shape[1], braA.shape[1]>>, [o \in Idx(<<ketA.shape[1], braA.shape[1]>>) |->
        CSumTo([x1 \in 1..ketA.shape[3] |->
          CSumTo([x2 \in 1..ketA.shape[2] |->
            CSumTo([x3 \in 1..braA.shape[3] |->
              CMul(CMul(ketA.val[<<o[1], x2, x1>>], Fr.val[<<x1, x3>>]),
                   CConj(braA.val[<<o[2], x2, x3>>]))],
              braA.shape[3])], ketA.shape[2])], ketA.shape[3])])

\* the step toward the last site with the bra tensor left unconjugated
Update2Last_noconj(Fl, braA, ketA) ==
    Tensor(<<braA.shape[3], ketA.shape[3]>>, [o \in Idx(<<braA.shape[3], ketA.shape[3]>>) |->
        CSumTo([x1 \in 1..ketA.shape[1] |->
          CSumTo([x2 \in 1..braA.shape[1] |->
            CSumTo([x3 \in 1..braA.shape[2] |->
              CMul(CMul(braA.val[<<x2, x3, o[1]>>], Fl.val[<<x2, x1>>]),
                   ketA.val[<<x1, x3, o[2]>>])],
              braA.shape[2])], braA.shape[1])], ketA.shape[1])])

Update2Last(Fl, braA, ketA) ==
    Tensor(<<braA.shape[3], ketA.shape[3]>>, [o \in Idx(<<braA.shape[3], ketA.shape[3]>>) |->
        CSumTo([x1 \in 1..ketA.shape[1] |->
          CSumTo([x2 \in 1..braA.shape[1] |->
            CSumTo([x3 \in 1..braA.shape[2] |->
              CMul(CMul(CConj(braA.val[<<x2, x3, o[1]>>]), Fl.val[<<x2, x1>>]),
                   ketA.val[<<x1, x3, o[2]>>])],
              braA.shape[2])], braA.shape[1])], ketA.shape[1])])

\* _update2_ that passes over a missing predecessor instead of raising
update2_tolerant(n, F, bra, ket, to) ==
    IF to = "first"
    THEN IF Has(F, <<n + 1, n>>)
         THEN [err |-> "", F |-> Put(F, <<n, n - 1>>, Update2First(F[<<n + 1, n>>], site(bra, n), site(ket, n)))]
         ELSE [err |-> "", F |-> F]
    ELSE IF Has(F, <<n - 1, n>>)
         THEN [err |-> "", F |-> Put(F, <<n, n + 1>>, Update2Last(F[<<n - 1, n>>], site(bra, n), site(ket, n)))]
         ELSE [err |-> "", F |-> F]

\* _update2_ that stores the result at the bond on the wrong side of n
update2_wrong_bond(n, F, bra, ket, to) ==
    IF to = "first"
    THEN IF Has(F, <<n + 1, n>>)
         THEN [err |-> "", F |-> Put(F, <<n, n + 1>>, Update2First(F[<<n + 1, n>>], site(bra, n), site(ket, n)))]
         ELSE [err |-> "KeyError", F |-> F]
    ELSE IF Has(F, <<n - 1, n>>)
         THEN [err |-> "", F |-> Put(F, <<n, n - 1>>, Update2Last(F[<<n - 1, n>>], site(bra, n), site(ket, n)))]
         ELSE [err |-> "KeyError", F |-> F]

\* _update2_: the cache after the call and the error it raised, if any
update2(n, F, bra, ket, to) ==
    IF to = "first"
    THEN IF Has(F, <<n + 1, n>>)
         THEN [err |-> "", F |-> Put(F, <<n, n - 1>>, Update2First(F[<<n + 1, n>>], site(bra, n), site(ket, n)))]
         ELSE [err |-> "KeyError", F |-> F]
    ELSE IF Has(F, <<n - 1, n>>)
         THEN [err |-> "", F |-> Put(F, <<n, n + 1>>, Update2Last(F[<<n - 1, n>>], site(bra, n), site(ket, n)))]
         ELSE [err |-> "KeyError", F |-> F]

\* ----------------------------------------- three-layer contraction step
\* Tensor._attach_01: MPO tensor W (left, top, right, bottom) joined to T
\* (bra-right, top, op-left, ket-left) over W's legs 0 and 1
attach_01(W, T) ==
    Tensor(<<T.shape[1], W.shape[3], T.shape[4], W.shape[4]>>, [o \in Idx(<<T.shape[1], W.shape[3], T.shape[4], W.shape[4]>>) |->
        CSumTo([s \in 1..W.shape[2] |->
          CSumTo([x \in 1..W.shape[1] |->
            CMul(T.val[<<o[1], s, x, o[3]>>], W.val[<<x, s, o[2], o[4]>>])],
            W.shape[1])], W.shape[2])])

\* Tensor._attach_23: W joined to T (ket-left, bottom, op-right, bra-right)
\* over W's legs 2 and 3
attach_23(W, T) ==
    Tensor(<<T.shape[1], W.shape[1], T.shape[4], W.shape[2]>>, [o \in Idx(<<T.shape[1], W.shape[1], T.shape[4], W.shape[2]>>) |->
        CSumTo([s \in 1..W.shape[4] |->
          CSumTo([x \in 1..W.shape[3] |->
            CMul(T.val[<<o[1], s, x, o[3]>>], W.val[<<o[2], o[4], x, s>>])],
            W.shape[3])], W.shape[4])])

\* the step toward the last site with the bra tensor left unconjugated
Update3Last_noconj(Fl, braA, W, ketA) ==
    LET tmp == Tensor(<<braA.shape[3], braA.shape[2], Fl.shape[2], Fl.shape[3]>>, [o \in Idx(<<braA.shape[3], braA.shape[2], Fl.shape[2], Fl.shape[3]>>) |->
                 CSumTo([x \in 1..braA.shape[1] |->
                   CMul(braA.val[<<x, o[2], o[1]>>], Fl.val[<<x, o[3], o[4]>>])],
                   braA.shape[1])])
        att == attach_01(W, tmp)
    IN  Tensor(<<att.shape[1], att.shape[2], ketA.shape[3]>>, [o \in Idx(<<att.shape[1], att.shape[2], ketA.shape[3]>>) |->
          CSumTo([x1 \in 1..ketA.shape[1] |->
            CSumTo([x2 \in 1..ketA.shape[2] |->
              CMul(att.val[<<o[1], o[2], x1, x2>>], ketA.val[<<x1, x2, o[3]>>])],
              ketA.shape[2])], ketA.shape[1])])

Update3Last(Fl, braA, W, ketA) ==
    LET tmp == Tensor(<<braA.shape[3], braA.shape[2], Fl.shape[2], Fl.shape[3]>>, [o \in Idx(<<braA.shape[3], braA.shape[2], Fl.shape[2], Fl.shape[3]>>) |->
                 CSumTo([x \in 1..braA.shape[1] |->
                   CMul(CConj(braA.val[<<x, o[2], o[1]>>]), Fl.val[<<x, o[3], o[4]>>])],
                   braA.shape[1])])
        att == attach_01(W, tmp)
    IN  Tensor(<<att.shape[1], att.shape[2], ketA.shape[3]>>, [o \in Idx(<<att.shape[1], att.shape[2], ketA.shape[3]>>) |->
          CSumTo([x1 \in 1..ketA.shape[1] |->
            CSumTo([x2 \in 1..ketA.shape[2] |->
              CMul(att.val[<<o[1], o[2], x1, x2>>], ketA.val[<<x1, x2, o[3]>>])],
              ketA.shape[2])], ketA.shape[1])])

Update3First(Fr, braA, W, ketA) ==
    LET tmp == Tensor(<<ketA.shape[1], ketA.shape[2], Fr.shape[2], Fr.shape[3]>>, [o \in Idx(<<ketA.shape[1], ketA.shape[2], Fr.shape[2], Fr.shape[3]>>) |->
                 CSumTo([x \in 1..ketA.shape[3] |->
                   CMul(ketA.val[<<o[1], o[2], x>>], Fr.val[<<x, o[3], o[4]>>])],
                   ketA.shape[3])])
        att == attach_23(W, tmp)
    IN  Tensor(<<att.shape[1], att.shape[2], braA.shape[1]>>, [o \in Idx(<<att.shape[1], att.shape[2], braA.shape[1]>>) |->
          CSumTo([x1 \in 1..braA.shape[2] |->
            CSumTo([x2 \in 1..braA.shape[3] |->
              CMul(att.val[<<o[1], o[2], x2, x1>>], CConj(braA.val[<<o[3], x1, x2>>]))],
              braA.shape[3])], braA.shape[2])])

\* pseudo-random operator chain; site tensors have legs (left, top, right, bottom)
RandEntry4(g, n, t) ==
    LET h == g * 5 + n * 7 + t[1] * 2 + t[2] * 3 + t[3] * 5 + t[4] * 11 + t[1] * t[3]
        k == g + n * 3 + t[1] * 7 + t[2] + t[3] * 2 + t[4] * 5 + t[2] * t[4]
    IN  <<(h % 3) - 1, (k % 3) - 1>>

mpo_random(N, g) == [N |-> N, g |-> g, factor |-> <<g + 1, 0>>]

\* the identity operator chain (seed 0): bond dimension 1, factor 1
identity_mpo(N) == [N |-> N, g |-> 0, factor |-> COne]

\* MpsMpoOBC.__getitem__ for an operator: legs (left, top, right, bottom)
site_op(o, n) ==
    LET Dl == IF n > 0 /\ o.g # 0 THEN Dmax ELSE 1
        Dr == IF n < o.N - 1 /\ o.g # 0 THEN Dmax ELSE 1
    IN  Tensor(<<Dl, PhysDim, Dr, PhysDim>>, [t \in Idx(<<Dl, PhysDim, Dr, PhysDim>>) |->
          IF o.g # 0 THEN RandEntry4(o.g, n, t)
          ELSE IF t[2] = t[4] THEN COne ELSE CZero])

virtual_leg_op(o, end) ==
    IF end = "first" THEN site_op(o, 0).shape[1] ELSE site_op(o, o.N - 1).shape[3]

\* --------------------------------------------------------------- state
VARIABLES
    variant,   \* class of the environment: "Env2" or "Env_mps_mpo_mps"
    bra,       \* self.bra
    ket,       \* self.ket
    op,        \* self.op (unused by Env2)
    ort,       \* self.projector.ort, the reference chains
    F,         \* self.F, the main cache: bond -> tensor
    Fort,      \* self.projector.Fort, one cache per reference
    Aort,      \* self.projector._temp['Aort']
    lastOp,    \* the last call made by the driver and its outcome
    trace,     \* which protocol prefix the calls since construction form
    cand,      \* candidate handed to _project_ort
    out,       \* tensor returned by _project_ort
    pc,        \* position of a routine outside the engine that is running
    locals     \* the arguments and local variables of that routine

vars == <<variant, bra, ket, op, ort, F, Fort, Aort, lastOp, trace, cand, out, pc, locals>>

procVars == <<pc, locals>>

\* no routine outside the engine is running
Idle == pc = "" /\ locals = <<>>

chainVars == <<variant, bra, ket, op, ort>>

projVars == <<Aort, cand, out>>

None == Tensor(<<0>>, [t \in Idx(<<0>>) |-> CZero])

Call(name, n, to, sites, bd, err, reads, ret) ==
    [op |-> name, n |-> n, to |-> to, sites |-> sites, bd |-> bd,
     err |-> err, reads |-> reads, ret |-> ret]

Sites == 0..(bra.N - 1)

Directions == {"first", "last"}

\* ------------------------------------------------------- construction
\* Env2.__init__
Env2Init(b, k) ==
    LET F0 == Put(<<>>, <<-1, 0>>, Eye(virtual_leg(b, "first"), virtual_leg(k, "first")))
    IN  Put(F0, <<b.N, b.N - 1>>, Eye(virtual_leg(k, "last"), virtual_leg(b, "last")))

\* _EnvParent_3.__init__ that sets the boundary before the first site only
Env3Init_left_only(b, o, k) ==
    Put(<<>>, <<-1, 0>>,
        Ones(<<virtual_leg(b, "first"), virtual_leg_op(o, "first"), virtual_leg(k, "first")>>))

\* _EnvParent_3.__init__
Env3Init(b, o, k) ==
    LET F0 == Put(<<>>, <<-1, 0>>,
                  Ones(<<virtual_leg(b, "first"), virtual_leg_op(o, "first"), virtual_leg(k, "first")>>))
    IN  Put(F0, <<b.N, b.N - 1>>,
            Ones(<<virtual_leg(k, "last"), virtual_leg_op(o, "last"), virtual_leg(b, "last")>>))

\* MpsProjector.__init__ that leaves the reference caches empty
ProjectorInit_empty(b, project) == [ii \in 1..Len(project) |-> <<>>]

\* MpsProjector.__init__
ProjectorInit(b, project) ==
    [ii \in 1..Len(project) |->
        LET F0 == Put(<<>>, <<-1, 0>>, Eye(virtual_leg(project[ii], "first"), virtual_leg(b, "first")))
        IN  Put(F0, <<b.N, b.N - 1>>, Eye(virtual_leg(b, "last"), virtual_leg(project[ii], "last")))]

\* ------------------------------------------------------------ projector
\* vdot: inner product, conjugating the first argument
vdot(A, B) ==
    CSumOver([t \in Idx(A.shape) |-> CMul(CConj(A.val[t]), B.val[t])], Idx(A.shape))

\* Tensor.apxb: A + x * B
apxb(A, B, x) ==
    Tensor(A.shape, [t \in Idx(A.shape) |-> CAdd(A.val[t], CMul(x, B.val[t]))])

\* _project_ort that takes every overlap with the candidate it was handed
RECURSIVE project_original(_, _, _, _)
project_original(cached, k, A0, A) ==
    IF k = 0
    THEN A
    ELSE LET c == cached[Len(cached) - k + 1]
         IN  project_original(cached, k - 1, A0, apxb(A, c, CNeg(vdot(c, A0))))

project_ort_original(cached, nrefs, A) ==
    IF Len(cached) < nrefs
    THEN [err |-> "IndexError", ret |-> None]
    ELSE [err |-> "", ret |-> project_original(cached, nrefs, A, A)]

\* the loop of MpsProjector._project_ort from reference ii on; vdot rejects
\* two tensors whose legs do not match
RECURSIVE project_from(_, _, _, _)
project_from(cached, nrefs, ii, A) ==
    IF ii > nrefs
    THEN [err |-> "", ret |-> A]
    ELSE IF ii > Len(cached)
         THEN [err |-> "IndexError", ret |-> None]
         ELSE IF cached[ii].shape # A.shape
              THEN [err |-> "YastnError", ret |-> None]
              ELSE LET x == vdot(cached[ii], A)
                   IN  project_from(cached, nrefs, ii + 1, apxb(A, cached[ii], CNeg(x)))

\* MpsProjector._project_ort over self._temp['Aort'], for len(self.ort) references
project_ort(cached, nrefs, A) == project_from(cached, nrefs, 1, A)

\* ---------------------------------------------------------- operations
\* MpsProjector._update_env: the references are updated one after another;
\* an exception leaves the earlier ones written
\* _update_env that returns after the first reference
projector_update_env_first_only(Fo, ii, n, to) ==
    IF ii > Len(ort)
    THEN [Fort |-> Fo, err |-> ""]
    ELSE LET r == update2(n, Fo[ii], bra, ort[ii], to)
         IN  IF r.err # ""
             THEN [Fort |-> Fo, err |-> r.err]
             ELSE [Fort |-> [Fo EXCEPT ![ii] = r.F], err |-> ""]

RECURSIVE projector_update_env(_, _, _, _)
projector_update_env(Fo, ii, n, to) ==
    IF ii > Len(ort)
    THEN [Fort |-> Fo, err |-> ""]
    ELSE LET r == update2(n, Fo[ii], bra, ort[ii], to)
         IN  IF r.err # ""
             THEN [Fort |-> Fo, err |-> r.err]
             ELSE projector_update_env([Fo EXCEPT ![ii] = r.F], ii + 1, n, to)

\* Env2.update_env_ (self.projector is always None for Env2)
Env2_update_env(E, n, to) ==
    LET r == update2(n, E.F, bra, ket, to)
    IN  [F |-> r.F, Fort |-> E.Fort, err |-> r.err]

\* _Env_mps_mpo_mps.update_env_
Env3_update_env(E, n, to) ==
    LET pred == IF to = "last" THEN <<n - 1, n>> ELSE <<n + 1, n>>
        succ == IF to = "last" THEN <<n, n + 1>> ELSE <<n, n - 1>>
    IN  IF ~Has(E.F, pred)
        THEN [F |-> E.F, Fort |-> E.Fort, err |-> "KeyError"]
        ELSE LET new == IF to = "last"
                        THEN Update3Last(E.F[pred], site(bra, n), site_op(op, n), site(ket, n))
                        ELSE Update3First(E.F[pred], site(bra, n), site_op(op, n), site(ket, n))
                 p == projector_update_env(E.Fort, 1, n, to)
             IN  [F |-> Put(E.F, succ, new), Fort |-> p.Fort, err |-> p.err]

update_env(E, n, to) ==
    IF variant = "Env2" THEN Env2_update_env(E, n, to) ELSE Env3_update_env(E, n, to)

\* _EnvParent.setup_: update_env_ at every site of the sweep, until one raises
RECURSIVE setup_from(_, _, _)
setup_from(E, i, to) ==
    IF i > ket.N
    THEN E
    ELSE LET r == update_env(E, sweep(ket, to)[i], to)
         IN  IF r.err # "" THEN r ELSE setup_from(r, i + 1, to)

\* setup_ whose loop misses the first site of the sweep
setup_skip_first(E, to) == setup_from(E, 2, to)

setup(E, to) == setup_from(E, 1, to)

\* _clear_site_ that drops the bonds pointing to the site, not from it
RECURSIVE clear_site_inward(_, _)
clear_site_inward(F0, args) ==
    IF args = <<>>
    THEN F0
    ELSE LET n == Head(args)
         IN  clear_site_inward(Pop(Pop(F0, <<n - 1, n>>), <<n + 1, n>>), Tail(args))

\* _clear_site_ that forgets the bond toward the first site
RECURSIVE clear_site_half(_, _)
clear_site_half(F0, args) ==
    IF args = <<>>
    THEN F0
    ELSE LET n == Head(args)
         IN  clear_site_half(Pop(F0, <<n, n + 1>>), Tail(args))

\* _clear_site_
RECURSIVE clear_site(_, _)
clear_site(F0, args) ==
    IF args = <<>>
    THEN F0
    ELSE LET n == Head(args)
         IN  clear_site(Pop(Pop(F0, <<n, n - 1>>), <<n, n + 1>>), Tail(args))

Engine == [F |-> F, Fort |-> Fort, err |-> ""]

\* --------------------------------------------------- protocol tracking
Tr(kind, to, n) == [kind |-> kind, to |-> to, n |-> n]

Other == Tr("other", "", 0)

AfterUpdate(n, to, err) ==
    LET first == IF to = "last" THEN 0 ELSE bra.N - 1
        next == IF to = "last" THEN trace.n + 1 ELSE trace.n - 1
    IN  IF err # "" THEN Other
        ELSE IF trace.kind = "fresh" /\ n = first THEN Tr("sweep", to, n)
        ELSE IF trace.kind = "sweep" /\ trace.to = to /\ n = next THEN Tr("sweep", to, n)
        ELSE IF trace.kind = "cleared" /\ trace.to = to /\ trace.n = n THEN Tr("redone", to, n)
        ELSE Other

AfterClear(args) ==
    IF trace.kind = "setup" /\ Len(args) = 1 THEN Tr("cleared", trace.to, args[1]) ELSE Other

\* ------------------------------------------------------------- actions
UpdateEnv(n, to) ==
    LET r == update_env(Engine, n, to)
        pred == IF to = "last" THEN <<n - 1, n>> ELSE <<n + 1, n>>
    IN  /\ F' = r.F
        /\ Fort' = r.Fort
        /\ lastOp' = Call("update_env_", n, to, <<>>, <<0, 0>>, r.err, <<pred>>, None)
        /\ trace' = AfterUpdate(n, to, r.err)
        /\ UNCHANGED <<procVars, chainVars, projVars>>

Setup(to) ==
    LET r == setup(Engine, to)
    IN  /\ F' = r.F
        /\ Fort' = r.Fort
        /\ lastOp' = Call("setup_", 0, to, <<>>, <<0, 0>>, r.err, <<>>, None)
        /\ trace' = IF r.err = "" THEN Tr("setup", to, 0) ELSE Other
        /\ UNCHANGED <<procVars, chainVars, projVars>>

ClearSite(args) ==
    /\ F' = clear_site(F, args)
    /\ lastOp' = Call("clear_site_", 0, "", args, <<0, 0>>, "", <<>>, None)
    /\ trace' = AfterClear(args)
    /\ UNCHANGED <<procVars, chainVars, projVars, Fort>>

\* Env2.factor / _EnvParent_3.factor
factor ==
    IF variant = "Env2"
    THEN CMul(bra.factor, ket.factor)
    ELSE CMul(CMul(bra.factor, op.factor), ket.factor)

\* tensordot of the two boundary tensors meeting at a bond, over all legs
Overlap2(A, B) ==
    CSumTo([i \in 1..A.shape[1] |->
      CSumTo([j \in 1..A.shape[2] |-> CMul(A.val[<<i, j>>], B.val[<<j, i>>])],
        A.shape[2])], A.shape[1])

Overlap3(A, B) ==
    CSumTo([i \in 1..A.shape[1] |->
      CSumTo([j \in 1..A.shape[2] |->
        CSumTo([k \in 1..A.shape[3] |-> CMul(A.val[<<i, j, k>>], B.val[<<k, j, i>>])],
          A.shape[3])], A.shape[2])], A.shape[1])

Scalar(x) == Tensor(<<>>, [t \in Idx(<<>>) |-> x])

\* measure that reports success, with no value, when the reverse bond is missing
measure_one_sided(bd) ==
    IF ~Has(F, bd) THEN [err |-> "KeyError", reads |-> <<bd>>, ret |-> None]
    ELSE IF ~Has(F, Rev(bd)) THEN [err |-> "", reads |-> <<bd, Rev(bd)>>, ret |-> None]
    ELSE LET tmp == IF variant = "Env2"
                    THEN Overlap2(F[bd], F[Rev(bd)])
                    ELSE Overlap3(F[bd], F[Rev(bd)])
         IN  [err |-> "", reads |-> <<bd, Rev(bd)>>, ret |-> Scalar(CMul(factor, tmp))]

\* Env2.measure / _EnvParent_3.measure
measure(bd) ==
    IF ~Has(F, bd) THEN [err |-> "KeyError", reads |-> <<bd>>, ret |-> None]
    ELSE IF ~Has(F, Rev(bd)) THEN [err |-> "KeyError", reads |-> <<bd, Rev(bd)>>, ret |-> None]
    ELSE LET tmp == IF variant = "Env2"
                    THEN Overlap2(F[bd], F[Rev(bd)])
                    ELSE Overlap3(F[bd], F[Rev(bd)])
         IN  [err |-> "", reads |-> <<bd, Rev(bd)>>, ret |-> Scalar(CMul(factor, tmp))]

Measure(bd) ==
    LET r == measure(bd)
    IN  /\ lastOp' = Call("measure", 0, "", <<>>, bd, r.err, r.reads, r.ret)
        /\ UNCHANGED <<procVars, chainVars, projVars, F, Fort, trace>>

\* ------------------------------------------------------------ two sites
\* MpsMpoOBC.merge_two_sites: the two site tensors joined over their shared leg
merge_two_sites(psi, n1) ==
    LET A1 == site(psi, n1)
        A2 == site(psi, n1 + 1)
    IN  Tensor(<<A1.shape[1], A1.shape[2], A2.shape[2], A2.shape[3]>>, [t \in Idx(<<A1.shape[1], A1.shape[2], A2.shape[2], A2.shape[3]>>) |->
          CSumTo([m \in 1..A1.shape[3] |->
            CMul(A1.val[<<t[1], t[2], m>>], A2.val[<<m, t[3], t[4]>>])], A1.shape[3])])

\* Tensor.fuse_legs(axes=(0, (1, 2), 3)) and its inverse unfuse_legs(axes=1)
fuse_legs(AA) ==
    Tensor(<<AA.shape[1], AA.shape[2] * AA.shape[3], AA.shape[4]>>, [t \in Idx(<<AA.shape[1], AA.shape[2] * AA.shape[3], AA.shape[4]>>) |->
        AA.val[<<t[1], ((t[2] - 1) \div AA.shape[3]) + 1, ((t[2] - 1) % AA.shape[3]) + 1, t[3]>>]])

unfuse_legs(T, d1, d2) ==
    Tensor(<<T.shape[1], d1, d2, T.shape[3]>>, [t \in Idx(<<T.shape[1], d1, d2, T.shape[3]>>) |->
        T.val[<<t[1], (t[2] - 1) * d2 + t[3], t[4]>>]])

\* the bonds whose boundary tensors Heff2 addresses, in the order read
Heff2Bonds(v, bd) ==
    IF v = "Env2"
    THEN <<<<bd[1] - 1, bd[1]>>, <<bd[2] + 1, bd[2]>>>>
    ELSE LET n1 == IF bd[1] < bd[2] THEN bd[1] ELSE bd[2]
             n2 == IF bd[1] < bd[2] THEN bd[2] ELSE bd[1]
         IN  <<<<n2 + 1, n2>>, <<n1 - 1, n1>>>>

\* Env2.Heff2; a product of tensors with unequal legs is rejected by the algebra
Env2_Heff2(AA, bd) ==
    LET ks == Heff2Bonds("Env2", bd)
        temp == fuse_legs(AA)
    IN  IF ~Has(F, ks[1]) THEN [err |-> "KeyError", reads |-> <<ks[1]>>, ret |-> None]
        ELSE IF F[ks[1]].shape[2] # temp.shape[1]
             THEN [err |-> "YastnError", reads |-> <<ks[1]>>, ret |-> None]
        ELSE IF ~Has(F, ks[2]) THEN [err |-> "KeyError", reads |-> ks, ret |-> None]
        ELSE IF temp.shape[3] # F[ks[2]].shape[1]
             THEN [err |-> "YastnError", reads |-> ks, ret |-> None]
        ELSE LET L == F[ks[1]]
                 R == F[ks[2]]
                 LT == Tensor(<<L.shape[1], temp.shape[2], temp.shape[3]>>, [t \in Idx(<<L.shape[1], temp.shape[2], temp.shape[3]>>) |->
                         CSumTo([x \in 1..L.shape[2] |->
                           CMul(L.val[<<t[1], x>>], temp.val[<<x, t[2], t[3]>>])], L.shape[2])])
                 LTR == Tensor(<<LT.shape[1], LT.shape[2], R.shape[2]>>, [t \in Idx(<<LT.shape[1], LT.shape[2], R.shape[2]>>) |->
                          CSumTo([x \in 1..R.shape[1] |->
                            CMul(LT.val[<<t[1], t[2], x>>], R.val[<<x, t[3]>>])], R.shape[1])])
             IN  [err |-> "", reads |-> ks, ret |-> unfuse_legs(LTR, AA.shape[2], AA.shape[3])]

\* the steps of _Env_mps_mpo_mps.Heff2 between its two projections
\* tmp.fuse_legs(axes=((0, 1), 2, 3))
Heff2_fuse01(A0) ==
    Tensor(<<A0.shape[1] * A0.shape[2], A0.shape[3], A0.shape[4]>>,
      [t \in Idx(<<A0.shape[1] * A0.shape[2], A0.shape[3], A0.shape[4]>>) |->
         A0.val[<<((t[1] - 1) \div A0.shape[2]) + 1, ((t[1] - 1) % A0.shape[2]) + 1, t[2], t[3]>>]])

\* tmp @ self.F[(nr, n2)]
Heff2_matmul(T0, FR) ==
    Tensor(<<T0.shape[1], T0.shape[2], FR.shape[2], FR.shape[3]>>,
      [t \in Idx(<<T0.shape[1], T0.shape[2], FR.shape[2], FR.shape[3]>>) |->
         CSumTo([x \in 1..FR.shape[1] |->
           CMul(T0.val[<<t[1], t[2], x>>], FR.val[<<x, t[3], t[4]>>])], FR.shape[1])])

\* tmp.fuse_legs(axes=(0, 1, (3, 2))) followed by tmp.unfuse_legs(axes=0)
Heff2_refuse(T2, d1, Db) ==
    Tensor(<<T2.shape[1] \div d1, d1, T2.shape[2], T2.shape[4] * Db>>,
      [t \in Idx(<<T2.shape[1] \div d1, d1, T2.shape[2], T2.shape[4] * Db>>) |->
         T2.val[<<(t[1] - 1) * d1 + t[2], t[3],
                  ((t[4] - 1) % Db) + 1, ((t[4] - 1) \div Db) + 1>>]])

\* ncon([self.F[(nl, n1)], tmp], ((-0, 1, 2), (2, 1, -2, -1))) followed by
\* tmp.unfuse_legs(axes=2)
Heff2_close(FL, T5, d2, Db) ==
    Tensor(<<FL.shape[1], T5.shape[4], d2, Db>>,
      [t \in Idx(<<FL.shape[1], T5.shape[4], d2, Db>>) |->
         CSumTo([x1 \in 1..FL.shape[2] |->
           CSumTo([x2 \in 1..FL.shape[3] |->
             CMul(FL.val[<<t[1], x1, x2>>],
                  T5.val[<<x2, x1, (t[3] - 1) * Db + t[4], t[2]>>])],
             FL.shape[3])], FL.shape[2])])

\* the statements of Heff2 in program order, each applied to the value the
\* statement before it assigned to tmp
Heff2_tmp(A0, FR, FL, W1, W2) ==
    CHOOSE T7 \in
      {Heff2_close(FL, T5, W2.shape[2], FR.shape[3]) : T5 \in
        {attach_23(W1, T4) : T4 \in
          {Heff2_refuse(T2, A0.shape[2], FR.shape[3]) : T2 \in
            {attach_23(W2, T1) : T1 \in
              {Heff2_matmul(T0, FR) : T0 \in {Heff2_fuse01(A0)}}}}}} : TRUE

\* _Env_mps_mpo_mps.Heff2: the bond is put in ascending order, the right
\* boundary is read first; every fused leg is split again before returning
Env3_Heff2(AA, bd) ==
    LET ks == Heff2Bonds("Env_mps_mpo_mps", bd)
        n1 == IF bd[1] < bd[2] THEN bd[1] ELSE bd[2]
        n2 == n1 + 1
    IN  CHOOSE r \in
          {IF p0.err # "" THEN [err |-> p0.err, reads |-> <<>>, ret |-> None]
           ELSE IF ~Has(F, ks[1]) THEN [err |-> "KeyError", reads |-> <<ks[1]>>, ret |-> None]
           ELSE IF ~Has(F, ks[2]) THEN [err |-> "KeyError", reads |-> ks, ret |-> None]
           ELSE CHOOSE q \in
                  {IF p1.err # "" THEN [err |-> p1.err, reads |-> ks, ret |-> None]
                   ELSE [err |-> "", reads |-> ks, ret |-> Scale(op.factor, p1.ret)] :
                   p1 \in {project_ort(Aort, Len(ort), tmp) :
                           tmp \in {Heff2_tmp(p0.ret, F[ks[1]], F[ks[2]],
                                              site_op(op, n1), site_op(op, n2))}}} : TRUE :
           p0 \in {project_ort(Aort, Len(ort), AA)}} : TRUE

heff2(AA, bd) == IF variant = "Env2" THEN Env2_Heff2(AA, bd) ELSE Env3_Heff2(AA, bd)

Heff2(AA, bd) ==
    /\ \E A \in {AA} : \E r \in {heff2(A, bd)} :
          /\ lastOp' = Call("Heff2", 0, "", <<>>, bd, r.err, r.reads, r.ret)
          /\ cand' = A
    /\ UNCHANGED <<procVars, chainVars, Aort, out, F, Fort, trace>>

\* ------------------------------------------------------------ one site
\* ncon([self.F[(nl, n)], tmp], ((-0, 1, 2), (2, 1, -2, -1)))
Heff1_close(FL, T) ==
    Tensor(<<FL.shape[1], T.shape[4], T.shape[3]>>,
      [t \in Idx(<<FL.shape[1], T.shape[4], T.shape[3]>>) |->
         CSumTo([x1 \in 1..FL.shape[2] |->
           CSumTo([x2 \in 1..FL.shape[3] |->
             CMul(FL.val[<<t[1], x1, x2>>], T.val[<<x2, x1, t[3], t[2]>>])],
             FL.shape[3])], FL.shape[2])])

\* the statements of _Env_mps_mpo_mps.Heff1 between its two projections
Heff1_tmp(A0, FR, FL, W) ==
    CHOOSE T3 \in
      {Heff1_close(FL, T2) : T2 \in
        {attach_23(W, T1) : T1 \in {Heff2_matmul(A0, FR)}}} : TRUE

\* Heff1 that returns the contraction without the closing projection
Env3_Heff1_unprojected(A, n) ==
    LET ks == <<<<n + 1, n>>, <<n - 1, n>>>>
    IN  CHOOSE r \in
          {IF p0.err # "" THEN [err |-> p0.err, reads |-> <<>>, ret |-> None]
           ELSE IF ~Has(F, ks[1]) THEN [err |-> "KeyError", reads |-> <<ks[1]>>, ret |-> None]
           ELSE IF ~Has(F, ks[2]) THEN [err |-> "KeyError", reads |-> ks, ret |-> None]
           ELSE [err |-> "", reads |-> ks,
                 ret |-> Scale(op.factor, Heff1_tmp(p0.ret, F[ks[1]], F[ks[2]], site_op(op, n)))] :
           p0 \in {project_ort(Aort, Len(ort), A)}} : TRUE

\* _Env_mps_mpo_mps.Heff1: the right boundary is read first
Env3_Heff1(A, n) ==
    LET ks == <<<<n + 1, n>>, <<n - 1, n>>>>
    IN  CHOOSE r \in
          {IF p0.err # "" THEN [err |-> p0.err, reads |-> <<>>, ret |-> None]
           ELSE IF ~Has(F, ks[1]) THEN [err |-> "KeyError", reads |-> <<ks[1]>>, ret |-> None]
           ELSE IF ~Has(F, ks[2]) THEN [err |-> "KeyError", reads |-> ks, ret |-> None]
           ELSE CHOOSE q \in
                  {IF p1.err # "" THEN [err |-> p1.err, reads |-> ks, ret |-> None]
                   ELSE [err |-> "", reads |-> ks, ret |-> Scale(op.factor, p1.ret)] :
                   p1 \in {project_ort(Aort, Len(ort), tmp) :
                           tmp \in {Heff1_tmp(p0.ret, F[ks[1]], F[ks[2]], site_op(op, n))}}} : TRUE :
           p0 \in {project_ort(Aort, Len(ort), A)}} : TRUE

\* ncon([Fl, A, Fr], ((-0, 1), (1, -1, 2), (2, -2))): a one-site tensor
\* between a left and a right two-leg boundary
Sandwich1(Fl, A, Fr) ==
    Tensor(<<Fl.shape[1], A.shape[2], Fr.shape[2]>>,
      [t \in Idx(<<Fl.shape[1], A.shape[2], Fr.shape[2]>>) |->
         CSumTo([x1 \in 1..A.shape[1] |->
           CSumTo([x2 \in 1..A.shape[3] |->
             CMul(CMul(Fl.val[<<t[1], x1>>], A.val[<<x1, t[2], x2>>]), Fr.val[<<x2, t[3]>>])],
             A.shape[3])], A.shape[1])])

\* ncon([Fl, AA, Fr], ((-0, 1), (1, -1, -2, 2), (2, -3))): the same for two sites
Sandwich2(Fl, AA, Fr) ==
    Tensor(<<Fl.shape[1], AA.shape[2], AA.shape[3], Fr.shape[2]>>,
      [t \in Idx(<<Fl.shape[1], AA.shape[2], AA.shape[3], Fr.shape[2]>>) |->
         CSumTo([x1 \in 1..AA.shape[1] |->
           CSumTo([x2 \in 1..AA.shape[4] |->
             CMul(CMul(Fl.val[<<t[1], x1>>], AA.val[<<x1, t[2], t[3], x2>>]), Fr.val[<<x2, t[4]>>])],
             AA.shape[4])], AA.shape[1])])

\* Heff1 that returns nothing, without raising, when the right boundary is missing
Env2_Heff1_lenient(x, n) ==
    LET ks == <<<<n - 1, n>>, <<n + 1, n>>>>
    IN  IF ~Has(F, ks[1]) THEN [err |-> "KeyError", reads |-> <<ks[1]>>, ret |-> None]
        ELSE IF ~Has(F, ks[2]) THEN [err |-> "", reads |-> ks, ret |-> None]
        ELSE [err |-> "", reads |-> ks, ret |-> Sandwich1(F[ks[1]], x, F[ks[2]])]

\* Env2.Heff1: ncon([self.F[(n - 1, n)], x, self.F[(n + 1, n)]], inds)
Env2_Heff1(x, n) ==
    LET ks == <<<<n - 1, n>>, <<n + 1, n>>>>
    IN  IF ~Has(F, ks[1]) THEN [err |-> "KeyError", reads |-> <<ks[1]>>, ret |-> None]
        ELSE IF ~Has(F, ks[2]) THEN [err |-> "KeyError", reads |-> ks, ret |-> None]
        ELSE [err |-> "", reads |-> ks, ret |-> Sandwich1(F[ks[1]], x, F[ks[2]])]

heff1(A, n) == IF variant = "Env2" THEN Env2_Heff1(A, n) ELSE Env3_Heff1(A, n)

Heff1(A, n) ==
    /\ \E x \in {A} : \E r \in {heff1(x, n)} :
          /\ lastOp' = Call("Heff1", n, "", <<>>, <<0, 0>>, r.err, r.reads, r.ret)
          /\ cand' = x
    /\ UNCHANGED <<procVars, chainVars, Aort, out, F, Fort, trace>>

\* ----------------------------------------------------------- zero sites
\* _EnvParent_3.Heff0: the bond is put in ascending order, C is scaled by the
\* factor of the operator and contracted between the two boundaries of the bond
Env3_Heff0(C, bd) ==
    LET b == IF bd[2] < bd[1] THEN Rev(bd) ELSE bd
        ib == Rev(b)
    IN  IF ~Has(F, b) THEN [err |-> "KeyError", reads |-> <<b>>, ret |-> None]
        ELSE IF ~Has(F, ib) THEN [err |-> "KeyError", reads |-> <<b, ib>>, ret |-> None]
        ELSE [err |-> "", reads |-> <<b, ib>>,
              ret |-> Tensor(<<F[b].shape[1], F[ib].shape[3]>>,
                 [t \in Idx(<<F[b].shape[1], F[ib].shape[3]>>) |->
                    CSumTo([w \in 1..F[b].shape[2] |->
                      CSumTo([x \in 1..C.shape[1] |->
                        CSumTo([y \in 1..C.shape[2] |->
                          CMul(CMul(F[b].val[<<t[1], w, x>>], CMul(op.factor, C.val[<<x, y>>])),
                               F[ib].val[<<y, w, t[2]>>])],
                          C.shape[2])], C.shape[1])], F[b].shape[2])])]

\* Env2.Heff0 is `pass`: nothing is read and None is returned
Env2_Heff0(C, bd) == [err |-> "", reads |-> <<>>, ret |-> None]

heff0(C, bd) == IF variant = "Env2" THEN Env2_Heff0(C, bd) ELSE Env3_Heff0(C, bd)

Heff0(C, bd) ==
    /\ \E x \in {C} : \E r \in {heff0(x, bd)} :
          /\ lastOp' = Call("Heff0", 0, "", <<>>, bd, r.err, r.reads, r.ret)
          /\ cand' = x
    /\ UNCHANGED <<procVars, chainVars, Aort, out, F, Fort, trace>>

\* --------------------------------------------- refreshing the projections
\* the loop of MpsProjector.update_Aort_ from reference ii on; the list is
\* assigned to _temp['Aort'] only when the loop has finished
RECURSIVE update_Aort_from(_, _, _)
update_Aort_from(acc, ii, n) ==
    IF ii > Len(ort)
    THEN [err |-> "", Aort |-> acc]
    ELSE IF ~Has(Fort[ii], <<n - 1, n>>) \/ ~Has(Fort[ii], <<n + 1, n>>)
         THEN [err |-> "KeyError", Aort |-> Aort]
         ELSE update_Aort_from(
                Append(acc, Sandwich1(Fort[ii][<<n - 1, n>>], site(ort[ii], n), Fort[ii][<<n + 1, n>>])),
                ii + 1, n)

\* _EnvParent.update_Aort_: nothing happens without a projector
update_Aort(n) ==
    IF variant = "Env2" THEN [err |-> "", Aort |-> Aort] ELSE update_Aort_from(<<>>, 1, n)

\* the loop of MpsProjector.update_AAort_ for the bond (nl, nr) = (nl, nl + 1)
RECURSIVE update_AAort_from(_, _, _)
update_AAort_from(acc, ii, nl) ==
    IF ii > Len(ort)
    THEN [err |-> "", Aort |-> acc]
    ELSE IF ~Has(Fort[ii], <<nl - 1, nl>>) \/ ~Has(Fort[ii], <<nl + 2, nl + 1>>)
         THEN [err |-> "KeyError", Aort |-> Aort]
         ELSE update_AAort_from(
                Append(acc, Sandwich2(Fort[ii][<<nl - 1, nl>>], merge_two_sites(ort[ii], nl),
                                      Fort[ii][<<nl + 2, nl + 1>>])),
                ii + 1, nl)

\* _EnvParent.update_AAort_
update_AAort(nl) ==
    IF variant = "Env2" THEN [err |-> "", Aort |-> Aort] ELSE update_AAort_from(<<>>, 1, nl)

UpdateAort(n) ==
    /\ \E r \in {update_Aort(n)} :
          /\ Aort' = r.Aort
          /\ lastOp' = Call("update_Aort_", n, "", <<>>, <<0, 0>>, r.err, <<>>, None)
    /\ UNCHANGED <<procVars, chainVars, cand, out, F, Fort, trace>>

UpdateAAort(nl) ==
    /\ \E r \in {update_AAort(nl)} :
          /\ Aort' = r.Aort
          /\ lastOp' = Call("update_AAort_", 0, "", <<>>, <<nl, nl + 1>>, r.err, <<>>, None)
    /\ UNCHANGED <<procVars, chainVars, cand, out, F, Fort, trace>>

\* ------------------------------------------------------- specification
Bonds == {bd \in (-1..bra.N) \X (-1..bra.N) : bd[1] - bd[2] \in {-1, 1}}

TwoSiteBonds == {bd \in Sites \X Sites : bd[1] - bd[2] \in {-1, 1}}

ClearArgs == {<<n>> : n \in Sites} \cup
             (IF MaxClear >= 2 THEN {<<n, m>> : n \in Sites, m \in Sites} ELSE {})

Refs(N, k) == [ii \in 1..k |-> mps_random(N, MaxSeed + ii)]

\* the state after construction of an environment over chains of length N
Construct(v, N, gb, gk, k) ==
    /\ Idle
    /\ variant = v
    /\ bra = mps_random(N, gb)
    /\ ket = mps_random(N, gk)
    /\ op = mpo_random(N, 1)
    /\ ort = Refs(N, k)
    /\ F = IF v = "Env2" THEN Env2Init(bra, ket) ELSE Env3Init(bra, op, ket)
    /\ Fort = ProjectorInit(bra, ort)
    /\ lastOp = Call("__init__", 0, "", <<>>, <<0, 0>>, "", <<>>, None)
    /\ trace = Tr("fresh", "", 0)

Init ==
    /\ Aort = <<>>
    /\ cand = None
    /\ out = None
    /\ \E gk \in 1..MaxSeed :
          \/ \E N \in 1..MaxN : Construct("Env2", N, 1, gk, 0)
          \/ \E N \in 1..MaxNOp, k \in {0, MaxRefs} : Construct("Env_mps_mpo_mps", N, 1, gk, k)

Next ==
    \/ \E n \in Sites, to \in Directions : UpdateEnv(n, to)
    \/ \E to \in Directions : Setup(to)
    \/ \E args \in ClearArgs : ClearSite(args)

Spec == Init /\ [][Next]_vars

\* ------------------------------------------- the two-sweep scenario
\* one update_env_ of a driver that sweeps to the last site and then back
SweepStep ==
    LET N == bra.N
        n == CASE trace.kind = "fresh" -> 0
               [] trace.kind = "sweep" /\ trace.n < N - 1 -> trace.n + 1
               [] trace.kind = "sweep" /\ trace.n = N - 1 -> N - 1
               [] trace.kind = "back" -> trace.n - 1
        to == IF trace.kind \in {"fresh", "sweep"} /\ ~(trace.kind = "sweep" /\ trace.n = N - 1)
              THEN "last" ELSE "first"
        r == update_env(Engine, n, to)
    IN  /\ trace.kind \in {"fresh", "sweep"} \/ (trace.kind = "back" /\ trace.n > 0)
        /\ F' = r.F
        /\ Fort' = r.Fort
        /\ lastOp' = Call("update_env_", n, to, <<>>, <<0, 0>>, r.err, <<Pred(n, to)>>, None)
        /\ trace' = IF r.err # "" THEN Other
                    ELSE IF to = "last" THEN Tr("sweep", "last", n) ELSE Tr("back", "first", n)
        /\ UNCHANGED <<procVars, chainVars, projVars>>

InitSweep ==
    /\ Aort = <<>>
    /\ cand = None
    /\ out = None
    /\ \E N \in {1, 2, MaxSweepN}, gb \in 1..MaxSeed, gk \in 1..MaxSeed :
          Construct("Env2", N, gb, gk, 0)

NextSweep ==
    \/ SweepStep
    \/ \E bd \in Bonds : Measure(bd)

SpecSweep == InitSweep /\ [][NextSweep]_vars

\* --------------------------------------------- the projector on its own
Vals == {<<0, 0>>, <<1, 0>>, <<0, 1>>, <<MaxVal, 0>>}

LocalTensors ==
    {Tensor(<<1, PhysDim, 1>>, [t \in Idx(<<1, PhysDim, 1>>) |-> e[t[2]]]) : e \in [1..PhysDim -> Vals]}

Lists(k) == [1..k -> LocalTensors]

\* Heff1's use of the projector: _project_ort applied to a one-site candidate
Project ==
    /\ lastOp.op = "__init__"
    /\ LET r == project_ort(Aort, Len(ort), cand)
       IN  /\ out' = r.ret
           /\ lastOp' = Call("_project_ort", 0, "", <<>>, <<0, 0>>, r.err, <<>>, None)
    /\ UNCHANGED <<procVars, chainVars, F, Fort, Aort, cand, trace>>

InitProj ==
    /\ \E k \in 0..MaxRefs :
          /\ Construct("Env_mps_mpo_mps", 1, 1, 1, k)
          /\ Aort \in Lists(k)
    /\ cand \in LocalTensors
    /\ out = None

NextProj == Project

SpecProj == InitProj /\ [][NextProj]_vars

\* ----------------------------------------- two-site effective operator
InitHeff ==
    /\ Aort = <<>>
    /\ cand = None
    /\ out = None
    /\ \E gk \in 1..MaxSeed :
          \/ \E N \in 2..MaxN : Construct("Env2", N, 1, gk, 0)
          \/ \E N \in 2..MaxNOp : Construct("Env_mps_mpo_mps", N, 1, gk, 0)

NextHeff ==
    \/ \E to \in Directions : Setup(to)
    \/ \E bd \in TwoSiteBonds, psi \in {bra, ket} :
          Heff2(merge_two_sites(psi, IF bd[1] < bd[2] THEN bd[1] ELSE bd[2]), bd)

SpecHeff == InitHeff /\ [][NextHeff]_vars

\* ------------------------------------ effective operators and deflation
\* the state after construction over given chains of one length
Built(v, b, o, k, refs) ==
    /\ Idle
    /\ variant = v
    /\ bra = b
    /\ ket = k
    /\ op = o
    /\ ort = refs
    /\ F = IF v = "Env2" THEN Env2Init(b, k) ELSE Env3Init(b, o, k)
    /\ Fort = ProjectorInit(b, refs)
    /\ lastOp = Call("__init__", 0, "", <<>>, <<0, 0>>, "", <<>>, None)
    /\ trace = Tr("fresh", "", 0)
    /\ Aort = <<>>
    /\ cand = None
    /\ out = None

\* a central block for the bond after site n, as the driver hands it to Heff0
CentralBlock(psi, n) ==
    LET D == IF n < 0 \/ n >= psi.N - 1 THEN 1 ELSE site(psi, n).shape[3]
    IN  Tensor(<<D, D>>, [t \in Idx(<<D, D>>) |-> RandEntry(psi.g, n + 1, <<t[1], t[2], 1>>)])

Factor ==
    /\ lastOp' = Call("factor", 0, "", <<>>, <<0, 0>>, "", <<>>, Scalar(factor))
    /\ UNCHANGED <<procVars, chainVars, projVars, F, Fort, trace>>

InitEff ==
    \/ Built("Env2", mps_random(MaxNOp, 1), mpo_random(MaxNOp, 1), mps_random(MaxNOp, MaxSeed), <<>>)
    \/ \E k \in {0, MaxRefs} :
          Built("Env_mps_mpo_mps", mps_random(MaxNOp, 1), mpo_random(MaxNOp, 1),
                mps_random(MaxNOp, MaxSeed), Refs(MaxNOp, k))

NextEff ==
    \/ \E n \in Sites, to \in Directions : UpdateEnv(n, to)
    \/ \E to \in Directions : Setup(to)
    \/ \E n \in Sites : UpdateAort(n)
    \/ \E nl \in 0..(bra.N - 2) : UpdateAAort(nl)
    \/ \E bd \in Bonds : Heff0(CentralBlock(ket, IF bd[1] < bd[2] THEN bd[1] ELSE bd[2]), bd)
    \/ \E n \in Sites : Heff1(site(ket, n), n)
    \/ \E bd \in TwoSiteBonds :
          Heff2(merge_two_sites(ket, IF bd[1] < bd[2] THEN bd[1] ELSE bd[2]), bd)
    \/ \E bd \in Bonds : Measure(bd)
    \/ Factor

SpecEff == InitEff /\ [][NextEff]_vars

\* ------------------------------------------- construction of every variant
\* the outcome of a constructor that raised: no engine, no cache
Raised(err) == [err |-> err, F |-> <<>>, Fort |-> <<>>]

\* _EnvParent.__init__(bra, project): F = {} and, with references, a projector;
\* the assert of MpsProjector.__init__ is compiled out when __debug__ is false
EnvParent_new(b, project, dbg) ==
    IF dbg /\ \E ii \in 1..Len(project) : project[ii].N # b.N
    THEN Raised("AssertionError")
    ELSE [err |-> "", F |-> <<>>, Fort |-> ProjectorInit(b, project)]

\* Env2.__init__(bra, ket): no projector; both chains have one physical leg
Env2_new(b, k) ==
    IF b.N # k.N THEN Raised("YastnError")
    ELSE [err |-> "", F |-> Env2Init(b, k), Fort |-> <<>>]

\* _EnvParent_3.__init__(bra, op, ket, project), inherited unchanged by
\* _Env_mps_mpo_mps, _Env_mpo_mpo_mpo and _Env_mpo_mpo_mpo_aux
EnvParent_3_new(b, o, k, project, dbg) ==
    LET p == EnvParent_new(b, project, dbg)
    IN  IF p.err # "" THEN p
        ELSE IF o.N # b.N THEN Raised("YastnError")
        ELSE [err |-> "", F |-> Env3Init(b, o, k), Fort |-> p.Fort]

\* Env3_pbc.__init__: super().__init__(bra, ket, project) hands three
\* arguments to _EnvParent.__init__(self, bra, project)
Env3_pbc_new(b, o, k, project, dbg) == Raised("TypeError")

SandwichVariants == {"Env_mps_mpo_mps", "Env_mpo_mpo_mpo", "Env_mpo_mpo_mpo_aux"}

\* the chains handed to a constructor, before the call
Args(b, o, k, refs) ==
    /\ Idle
    /\ variant = ""
    /\ bra = b
    /\ op = o
    /\ ket = k
    /\ ort = refs
    /\ F = <<>>
    /\ Fort = <<>>
    /\ lastOp = Call("args", 0, "", <<>>, <<0, 0>>, "", <<>>, None)
    /\ trace = Tr("fresh", "", 0)
    /\ Aort = <<>>
    /\ cand = None
    /\ out = None

\* the state a constructor call of class v leaves
Constructed(v, r, dbg) ==
    /\ lastOp.op = "args"
    /\ variant' = v
    /\ F' = r.F
    /\ Fort' = r.Fort
    /\ lastOp' = Call("__init__", 0, IF dbg THEN "__debug__" ELSE "-O", <<>>, <<0, 0>>,
                      r.err, <<>>, None)
    /\ UNCHANGED <<procVars, bra, ket, op, ort, Aort, cand, out, trace>>

\* Env2 takes no project argument
NewEnv2 == ort = <<>> /\ Constructed("Env2", Env2_new(bra, ket), TRUE)

NewSandwich(v, dbg) == Constructed(v, EnvParent_3_new(bra, op, ket, ort, dbg), dbg)

NewPbc(dbg) == Constructed("Env3_pbc", Env3_pbc_new(bra, op, ket, ort, dbg), dbg)

InitNew ==
    \E Nb \in 1..MaxNOp, No \in 1..MaxNOp, Nk \in 1..MaxNOp, Nr \in 1..MaxNOp, k \in {0, 1} :
        Args(mps_random(Nb, 1), mpo_random(No, 1), mps_random(Nk, MaxSeed), Refs(Nr, k))

NextNew ==
    \/ NewEnv2
    \/ \E v \in SandwichVariants, dbg \in BOOLEAN : NewSandwich(v, dbg)
    \/ \E dbg \in BOOLEAN : NewPbc(dbg)

SpecNew == InitNew /\ [][NextNew]_vars

\* ----------------------------------------------- every engine operation
\* an on-site operator (out, in) applied to the physical leg of a site tensor
ApplyOp(o, A) ==
    Tensor(A.shape, [t \in Idx(A.shape) |->
        CSumTo([p \in 1..A.shape[2] |-> CMul(o.val[<<t[2], p>>], A.val[<<t[1], p, t[3]>>])],
               A.shape[2])])

\* the on-site operators handed to update_env_op_
LocalOps ==
    {Tensor(<<PhysDim, PhysDim>>,
            [t \in Idx(<<PhysDim, PhysDim>>) |-> IF t[1] # t[2] THEN <<0, 1>> ELSE CZero])}

\* Env2.update_env_op_: the update of update_env_ with op applied to ket[n];
\* no other class defines the method
Env2_update_env_op(E, n, o, to) ==
    IF variant # "Env2" THEN [err |-> "AttributeError", F |-> E.F]
    ELSE IF ~Has(E.F, Pred(n, to)) THEN [err |-> "KeyError", F |-> E.F]
    ELSE IF to = "first"
    THEN [err |-> "", F |-> Put(E.F, <<n, n - 1>>,
              Update2First(E.F[<<n + 1, n>>], site(bra, n), ApplyOp(o, site(ket, n))))]
    ELSE [err |-> "", F |-> Put(E.F, <<n, n + 1>>,
              Update2Last(E.F[<<n - 1, n>>], site(bra, n), ApplyOp(o, site(ket, n))))]

\* update_env_op_ that keeps the chain with the operator applied as its ket
UpdateEnvOp_absorbing(n, o, to) ==
    \E r \in {Env2_update_env_op(Engine, n, o, to)} :
        /\ F' = r.F
        /\ lastOp' = Call("update_env_op_", n, to, <<>>, <<0, 0>>, r.err, <<Pred(n, to)>>, None)
        /\ trace' = Other
        /\ ket' = IF r.err = "" THEN [ket EXCEPT !.factor = CMul(<<0, 1>>, ket.factor)] ELSE ket
        /\ UNCHANGED <<procVars, variant, bra, op, ort, projVars, Fort>>

UpdateEnvOp(n, o, to) ==
    \E r \in {Env2_update_env_op(Engine, n, o, to)} :
        /\ F' = r.F
        /\ lastOp' = Call("update_env_op_", n, to, <<>>, <<0, 0>>, r.err, <<Pred(n, to)>>, None)
        /\ trace' = Other
        /\ UNCHANGED <<procVars, chainVars, projVars, Fort>>

InitFrame ==
    \E k \in {0, 1} :
        Args(mps_random(MaxNOp, 1), mpo_random(MaxNOp, 1), mps_random(MaxNOp, MaxSeed),
             Refs(MaxNOp, k))

NextFrame ==
    \/ NewEnv2
    \/ NewSandwich("Env_mps_mpo_mps", TRUE)
    \/ variant # "" /\ \E n \in Sites, to \in Directions : UpdateEnv(n, to)
    \/ variant # "" /\ \E to \in Directions : Setup(to)
    \/ variant # "" /\ \E n \in Sites : ClearSite(<<n>>)
    \/ variant # "" /\ \E n \in Sites, o \in LocalOps, to \in Directions : UpdateEnvOp(n, o, to)
    \/ variant # "" /\ UpdateAort(0)
    \/ variant # "" /\ UpdateAAort(0)
    \/ variant # "" /\ Heff0(CentralBlock(ket, 0), <<0, 1>>)
    \/ variant # "" /\ Heff1(site(ket, 0), 0)
    \/ variant # "" /\ Heff2(merge_two_sites(ket, 0), <<0, 1>>)
    \/ variant # "" /\ Measure(<<-1, 0>>)
    \/ variant # "" /\ Factor

SpecFrame == InitFrame /\ [][NextFrame]_vars

\* ------------------------------------- product state, identity operator
InitProduct ==
    \/ Built("Env2", product_mps(MaxNOp), identity_mpo(MaxNOp), product_mps(MaxNOp), <<>>)
    \/ Built("Env_mps_mpo_mps", product_mps(MaxNOp), identity_mpo(MaxNOp),
             product_mps(MaxNOp), <<>>)

NextProduct ==
    \/ \E n \in Sites, to \in Directions : UpdateEnv(n, to)
    \/ \E to \in Directions : Setup(to)
    \/ \E n \in Sites : ClearSite(<<n>>)
    \/ \E bd \in Bonds : Measure(bd)

SpecProduct == InitProduct /\ [][NextProduct]_vars

\* --------------------------- deflation over chains of bond dimension one
\* every site tensor of the bra has the shape (1, PhysDim, 1)
InitCursor ==
    Built("Env_mps_mpo_mps", product_mps(MaxNOp), mpo_random(MaxNOp, 1),
          product_mps(MaxNOp), Refs(MaxNOp, 1))

NextCursor ==
    \/ \E n \in Sites, to \in Directions : UpdateEnv(n, to)
    \/ \E to \in Directions : Setup(to)
    \/ \E n \in Sites : UpdateAort(n)
    \/ \E n \in Sites : Heff1(site(ket, n), n)

SpecCursor == InitCursor /\ [][NextCursor]_vars

\* --------------------------------------------------------- enlarge_bond
BoolT(b) == Scalar(IF b THEN COne ELSE CZero)

\* MpsMpoOBC.__getitem__ raises for an index that is no site of the chain
SiteError(psi, n) == IF n \in 0..(psi.N - 1) THEN "" ELSE "YastnError"

\* _EnvParent_3.enlarge_bond(bd, opts_svd) on dense tensors, whose physical
\* legs carry no charges; Dtot = 0 stands for opts_svd without 'D_total',
\* above for the outcome of the singular-value test of lines 326-330
enlarge_bond(bd, Dtot, tol, above) ==
    IF bd[1] < 0 \/ bd[2] >= bra.N
    THEN [err |-> "", reads |-> <<>>, ret |-> BoolT(FALSE)]
    ELSE IF SiteError(ket, bd[1]) # ""
    THEN [err |-> SiteError(ket, bd[1]), reads |-> <<bd[1]>>, ret |-> None]
    ELSE IF SiteError(ket, bd[2]) # ""
    THEN [err |-> SiteError(ket, bd[2]), reads |-> <<bd[1], bd[2]>>, ret |-> None]
    ELSE LET AL == site(ket, bd[1])
             AR == site(ket, bd[2])
             shapeL == <<AL.shape[1] * AL.shape[2], AL.shape[3]>>
             shapeR == <<AR.shape[1], AR.shape[2] * AR.shape[3]>>
         IN  IF \/ shapeL[1] = shapeL[2]
                \/ shapeR[1] = shapeR[2]
                \/ (Dtot > 0 /\ shapeL[2] >= Dtot)
             THEN [err |-> "", reads |-> <<bd[1], bd[2]>>, ret |-> BoolT(FALSE)]
             ELSE [err |-> "", reads |-> <<bd[1], bd[2]>>, ret |-> BoolT(tol /\ above)]

\* the call leaves the engine as it was; lastOp keeps opts_svd in n and to
EnlargeBond(bd, Dtot, tol, above) ==
    /\ variant # "Env2"
    /\ \E r \in {enlarge_bond(bd, Dtot, tol, above)} :
          lastOp' = Call("enlarge_bond", Dtot, IF tol THEN "tol" ELSE "", <<>>, bd,
                         r.err, r.reads, r.ret)
    /\ UNCHANGED <<procVars, chainVars, projVars, F, Fort, trace>>

InitEnlarge ==
    \E N \in 1..(MaxNOp + 1), gk \in 1..MaxSeed :
        Built("Env_mps_mpo_mps", mps_random(N, 1), mpo_random(N, 1), mps_random(N, gk), <<>>)

NextEnlarge ==
    \E bd \in Bonds, Dtot \in {0, Dmax, Dmax + 1}, tol \in BOOLEAN, above \in BOOLEAN :
        EnlargeBond(bd, Dtot, tol, above)

SpecEnlarge == InitEnlarge /\ [][NextEnlarge]_vars

\* ------------------------------------------ routines outside the engine
engineVars == <<variant, bra, ket, op, ort, F, Fort, Aort, lastOp, trace, cand, out>>

\* no engine has been built
NoEngine ==
    /\ variant = ""
    /\ bra = mps_random(1, 1)
    /\ op = mpo_random(1, 1)
    /\ ket = mps_random(1, 1)
    /\ ort = <<>>
    /\ F = <<>>
    /\ Fort = <<>>
    /\ lastOp = Call("", 0, "", <<>>, <<0, 0>>, "", <<>>, None)
    /\ trace = Tr("fresh", "", 0)
    /\ Aort = <<>>
    /\ cand = None
    /\ out = None

\* ------------------------------------------------- fpeps evolution_step_
\* gates.local and gates.nn are lists of nl and nn gates, each gate known by
\* its kind and its place in its list; log is the order in which gates have
\* been applied to psi, infos the list the truncations append to
EvolutionArgs(nl, nn, symmetrize) ==
    [nl |-> nl, nn |-> nn, symmetrize |-> symmetrize, i |-> 0, log |-> <<>>, infos |-> <<>>]

\* psi[gate.site] = apply_gate_onsite(psi[gate.site], gate.G)
apply_gate_onsite(L, g) == [L EXCEPT !.log = Append(@, <<"local", g>>), !.i = @ + 1]

\* infos.append(apply_gate_nn_and_truncate_(env, psi, gate, ...))
apply_gate_nn_and_truncate(L, g) ==
    [L EXCEPT !.log = Append(@, <<"nn", g>>), !.infos = Append(@, g), !.i = @ + 1]

\* one pass of a loop: its next gate, or the move to the statement after it
Leave(to) == pc' = to /\ locals' = [locals EXCEPT !.i = 0]

\* for gate in gates.local
LocalForward ==
    /\ pc = "local"
    /\ IF locals.i < locals.nl
       THEN pc' = pc /\ locals' = apply_gate_onsite(locals, locals.i + 1)
       ELSE Leave("nn")
    /\ UNCHANGED engineVars

\* for gate in gates.nn, then `if symmetrize`
NnForward ==
    /\ pc = "nn"
    /\ IF locals.i < locals.nn
       THEN pc' = pc /\ locals' = apply_gate_nn_and_truncate(locals, locals.i + 1)
       ELSE Leave(IF locals.symmetrize THEN "nn_back" ELSE "return")
    /\ UNCHANGED engineVars

\* the second pass over gates.nn taken in list order again
NnBackward_forward ==
    /\ pc = "nn_back"
    /\ IF locals.i < locals.nn
       THEN pc' = pc /\ locals' = apply_gate_nn_and_truncate(locals, locals.i + 1)
       ELSE Leave("local_back")
    /\ UNCHANGED engineVars

\* for gate in gates.nn[::-1]
NnBackward ==
    /\ pc = "nn_back"
    /\ IF locals.i < locals.nn
       THEN pc' = pc /\ locals' = apply_gate_nn_and_truncate(locals, locals.nn - locals.i)
       ELSE Leave("local_back")
    /\ UNCHANGED engineVars

\* for gate in gates.local[::-1]
LocalBackward ==
    /\ pc = "local_back"
    /\ IF locals.i < locals.nl
       THEN pc' = pc /\ locals' = apply_gate_onsite(locals, locals.nl - locals.i)
       ELSE Leave("return")
    /\ UNCHANGED engineVars

\* return Evolution_out(*zip(*infos))
EvolutionReturn ==
    /\ pc = "return"
    /\ pc' = "done"
    /\ UNCHANGED <<locals, engineVars>>

InitEvolution ==
    /\ NoEngine
    /\ pc = "local"
    /\ \E nl \in 0..MaxGates, nn \in 0..MaxGates, symmetrize \in BOOLEAN :
          locals = EvolutionArgs(nl, nn, symmetrize)

NextEvolution ==
    \/ LocalForward
    \/ NnForward
    \/ NnBackward
    \/ LocalBackward
    \/ EvolutionReturn

SpecEvolution == InitEvolution /\ [][NextEvolution]_vars

\* ------------------------------------------ operators/_auxliary.py
\* the order of sites handed in as f_ordered: s0 comes no later than s1
f_ordered(s0, s1) == s0 <= s1

\* config.fermionic: False, True, or a mask over the components of a charge
FssFalse == [kind |-> "False", mask |-> <<>>]

FssTrue == [kind |-> "True", mask |-> <<>>]

FssMask(mask) == [kind |-> "mask", mask |-> mask]

Remove(q, i) == [k \in 1..(Len(q) - 1) |-> IF k < i THEN q[k] ELSE q[k + 1]]

\* np.sum(t0 * t1) over the pairs collected, all components or the masked ones
RECURSIVE ChargeSum(_, _, _)
ChargeSum(charges_0, charges_1, fss) ==
    IF Len(charges_0) = 0 THEN 0
    ELSE LET t0 == Head(charges_0)
             t1 == Head(charges_1)
             on(k) == fss.kind = "True" \/ fss.mask[k]
             a1 == IF on(1) THEN t0[1] * t1[1] ELSE 0
             a2 == IF on(2) THEN t0[2] * t1[2] ELSE 0
         IN  a1 + a2 + ChargeSum(Tail(charges_0), Tail(charges_1), fss)

swap_charges(charges_0, charges_1, fss) ==
    IF fss.kind = "False" THEN 1
    ELSE 1 - 2 * (ChargeSum(charges_0, charges_1, fss) % 2)

\* the inner for loop that keeps the later of two operators on one site
RECURSIVE select_first_last_tie(_, _, _)
select_first_last_tie(sites, ind, first_ind) ==
    IF ind > Len(sites) THEN first_ind
    ELSE IF f_ordered(sites[ind], sites[first_ind])
         THEN select_first_last_tie(sites, ind + 1, ind)
         ELSE select_first_last_tie(sites, ind + 1, first_ind)

\* the inner for loop: the place of the site that comes first in the order
RECURSIVE select_first(_, _, _)
select_first(sites, ind, first_ind) ==
    IF ind > Len(sites) THEN first_ind
    ELSE IF ~f_ordered(sites[first_ind], sites[ind])
         THEN select_first(sites, ind + 1, ind)
         ELSE select_first(sites, ind + 1, first_ind)

\* the while loop: the charges passed over, paired with the charge moved
RECURSIVE canonical_pairs(_, _, _)
canonical_pairs(sites, charges, acc) ==
    IF Len(sites) = 0 THEN acc
    ELSE LET first_ind == select_first(sites, 2, 1)
             c1 == charges[first_ind]
             rest == Remove(charges, first_ind)
         IN  canonical_pairs(Remove(sites, first_ind), rest,
                 [c0 |-> acc.c0 \o [k \in 1..(first_ind - 1) |-> rest[k]],
                  c1 |-> acc.c1 \o [k \in 1..(first_ind - 1) |-> c1]])

\* operators are held by their charges op.n; fss is operators[0].config.fermionic
sign_canonical_order(charges, sites, fss) ==
    IF Len(charges) = 0 \/ fss.kind = "False" THEN 1
    ELSE LET p == canonical_pairs(sites, charges, [c0 |-> <<>>, c1 |-> <<>>])
         IN  IF Len(p.c0) = 0 THEN 1 ELSE swap_charges(p.c0, p.c1, fss)

\* charges of two components
Charges == {<<0, 0>>, <<1, 0>>, <<0, 1>>, <<-1, 1>>}

SignCall ==
    /\ pc = "sign_canonical_order"
    /\ pc' = "done"
    /\ locals' = [locals EXCEPT !.ret = sign_canonical_order(locals.charges, locals.sites, locals.fss)]
    /\ UNCHANGED engineVars

InitSign ==
    /\ NoEngine
    /\ pc = "sign_canonical_order"
    /\ \E k \in 0..MaxOps :
          \E charges \in [1..k -> Charges], sites \in [1..k -> 0..MaxSite],
             fss \in {FssFalse, FssTrue, FssMask(<<TRUE, FALSE>>), FssMask(<<FALSE, FALSE>>)} :
              locals = [charges |-> charges, sites |-> sites, fss |-> fss, ret |-> 0]

NextSign == SignCall

SpecSign == InitSign /\ [][NextSign]_vars

\* ------------------------------------------------- the sweep protocol
\* The driver replaces site tensors between engine calls.  locals.ver counts
\* the replacements of every site; locals.stamp keeps, for every entry of F,
\* the versions of the site tensors it was contracted from: update_env_
\* builds F[(n, n+1)] from F[(n-1, n)] and the tensors of site n, and
\* F[(n, n-1)] from F[(n+1, n)] and the tensors of site n.
DepSites(k) == IF k[1] < k[2] THEN 0..k[1] ELSE k[1]..(bra.N - 1)

\* the stamp of an entry contracted from the site tensors as they are now
CurrentStamp(k, ver) == [x \in DepSites(k) |-> ver[x]]

\* update_env_ that keeps an entry already cached instead of replacing it
stamp_update_keep(stamp, ver, n, to) ==
    IF Has(stamp, Succ(n, to)) THEN stamp
    ELSE Put(stamp, Succ(n, to), Put(stamp[Pred(n, to)], n, ver[n]))

\* the stamp written by update_env_(n, to)
stamp_update(stamp, ver, n, to) ==
    Put(stamp, Succ(n, to), Put(stamp[Pred(n, to)], n, ver[n]))

\* env.setup_(to='first') before the first sweep
DriverSetup ==
    /\ pc = "setup"
    /\ \E r \in {setup(Engine, "first")} :
          /\ F' = r.F
          /\ Fort' = r.Fort
          /\ lastOp' = Call("setup_", 0, "first", <<>>, <<0, 0>>, r.err, <<>>, None)
          /\ pc' = IF r.err = "" THEN "heff" ELSE "failed"
    /\ locals' = [locals EXCEPT !.stamp =
                     [k \in DOMAIN F' |-> CurrentStamp(k, locals.ver)]]
    /\ trace' = Other
    /\ UNCHANGED <<chainVars, projVars>>

\* env.Heff1(A, n) at the cursor
DriverHeff1 ==
    /\ pc = "heff"
    /\ \E r \in {heff1(site(ket, locals.n), locals.n)} :
          /\ lastOp' = Call("Heff1", locals.n, "", <<>>, <<0, 0>>, r.err, r.reads, r.ret)
          /\ pc' = IF r.err = "" THEN "replace" ELSE "failed"
    /\ UNCHANGED <<locals, chainVars, projVars, F, Fort, trace>>

\* the driver stores the new tensor of site n and, when it moves the centre
\* of orthogonality on, changes the next site of the sweep as well
DriverReplace(absorb) ==
    /\ pc = "replace"
    /\ pc' = "clear"
    /\ LET n == locals.n
           m == IF locals.to = "last" THEN n + 1 ELSE n - 1
           v1 == [locals.ver EXCEPT ![n] = @ + 1]
           v2 == IF absorb /\ m \in Sites THEN [v1 EXCEPT ![m] = @ + 1] ELSE v1
       IN  locals' = [locals EXCEPT !.ver = v2]
    /\ UNCHANGED engineVars

\* env.clear_site_(n), or no call
DriverClear(clear) ==
    /\ pc = "clear"
    /\ pc' = "update"
    /\ IF clear
       THEN /\ F' = clear_site(F, <<locals.n>>)
            /\ lastOp' = Call("clear_site_", 0, "", <<locals.n>>, <<0, 0>>, "", <<>>, None)
            /\ locals' = [locals EXCEPT !.stamp = clear_site(@, <<locals.n>>)]
       ELSE UNCHANGED <<F, lastOp, locals>>
    /\ UNCHANGED <<chainVars, projVars, Fort, trace>>

\* env.update_env_(n, to), then the cursor moves; a sweep that has passed its
\* last site is followed by a sweep in the other direction
DriverUpdate ==
    /\ pc = "update"
    /\ LET n == locals.n
           to == locals.to
           m == IF to = "last" THEN n + 1 ELSE n - 1
           turn == m \notin Sites
       IN  \E r \in {update_env(Engine, n, to)} :
              /\ F' = r.F
              /\ Fort' = r.Fort
              /\ lastOp' = Call("update_env_", n, to, <<>>, <<0, 0>>, r.err, <<Pred(n, to)>>, None)
              /\ pc' = IF r.err # "" THEN "failed"
                       ELSE IF turn /\ locals.sweeps + 1 = MaxSweeps THEN "done" ELSE "heff"
              /\ locals' = IF r.err # "" THEN locals
                           ELSE [locals EXCEPT
                                   !.stamp = stamp_update(@, locals.ver, n, to),
                                   !.n = IF turn THEN n ELSE m,
                                   !.to = IF turn THEN (IF to = "last" THEN "first" ELSE "last") ELSE to,
                                   !.sweeps = IF turn THEN @ + 1 ELSE @]
    /\ trace' = Other
    /\ UNCHANGED <<chainVars, projVars>>

InitProtocol ==
    /\ NoEngine
    /\ pc = "new"
    /\ locals = <<>>

\* the engine is built and the driver starts with a sweep toward the last site
DriverNew(N) ==
    /\ pc = "new"
    /\ pc' = "setup"
    /\ locals' = [n |-> 0, to |-> "last", sweeps |-> 0, ver |-> [x \in 0..(N - 1) |-> 0],
                  stamp |-> <<>>]
    /\ variant' = "Env_mps_mpo_mps"
    /\ bra' = product_mps(N)
    /\ op' = identity_mpo(N)
    /\ ket' = product_mps(N)
    /\ F' = Env3Init(product_mps(N), identity_mpo(N), product_mps(N))
    /\ lastOp' = Call("__init__", 0, "", <<>>, <<0, 0>>, "", <<>>, None)
    /\ UNCHANGED <<ort, Fort, Aort, cand, out, trace>>

NextProtocol ==
    \/ \E N \in 1..MaxN : DriverNew(N)
    \/ DriverSetup
    \/ DriverHeff1
    \/ \E absorb \in BOOLEAN : DriverReplace(absorb)
    \/ \E clear \in BOOLEAN : DriverClear(clear)
    \/ DriverUpdate

SpecProtocol == InitProtocol /\ [][NextProtocol]_vars

\* ------------------------------------------------------- fpeps ctmrg_
\* An optional number is <<>> (None) or <<x>>.
Truthy(x) == x # <<>> /\ x[1] # 0

CTMRGout(sweeps, max_dsv) == [sweeps |-> sweeps, max_dsv |-> max_dsv]

\* opts_svd: None, a dict without the key 'tol_multiplets', a dict with it
OptsSvd == {"None", "dense", "multiplets"}

CtmArgs(max_sweeps, iterator_step, opts_svd, corner_tol) ==
    [max_sweeps |-> max_sweeps, iterator_step |-> iterator_step, opts_svd |-> opts_svd,
     corner_tol |-> corner_tol, sweep |-> 0, max_dsv |-> <<>>, updates |-> 0,
     yields |-> <<>>, err |-> ""]

\* the yield inside the loop
intermediate_yield(L) ==
    Truthy(L.iterator_step) /\ L.sweep % L.iterator_step[1] = 0 /\ L.sweep < L.max_sweeps

\* one pass of the body of `for sweep in range(1, max_sweeps + 1)`, up to
\* the next yield, break, continue or exception; dsv is the change of the
\* corner singular values the pass would compute
CtmSweep(dsv) ==
    /\ pc = "loop"
    /\ locals.sweep < locals.max_sweeps
    /\ LET L1 == [locals EXCEPT !.sweep = @ + 1, !.updates = @ + 1]
           tol == Truthy(locals.corner_tol)
           L2 == [L1 EXCEPT !.max_dsv = <<dsv>>]
       IN  IF tol /\ L1.sweep % 2 = 1
           THEN pc' = "loop" /\ locals' = L1
           ELSE IF tol /\ locals.opts_svd = "None"
           THEN pc' = "raised" /\ locals' = [L1 EXCEPT !.err = "AttributeError"]
           ELSE IF tol /\ dsv < locals.corner_tol[1]
           THEN pc' = "break" /\ locals' = L2
           ELSE LET L == IF tol THEN L2 ELSE L1
                IN  IF intermediate_yield(L)
                    THEN /\ pc' = "yielded"
                         /\ locals' = [L EXCEPT !.yields = Append(@, CTMRGout(L.sweep, L.max_dsv))]
                    ELSE pc' = "loop" /\ locals' = L
    /\ UNCHANGED engineVars

\* the consumer asks for the next value after an intermediate yield
CtmResume ==
    /\ pc = "yielded"
    /\ pc' = "loop"
    /\ UNCHANGED <<locals, engineVars>>

\* the yield after the loop; `sweep` is unbound when the range was empty
CtmFinal ==
    /\ \/ pc = "break"
       \/ pc = "loop" /\ locals.sweep >= locals.max_sweeps
    /\ IF locals.sweep = 0
       THEN pc' = "raised" /\ locals' = [locals EXCEPT !.err = "UnboundLocalError"]
       ELSE /\ pc' = "last"
            /\ locals' = [locals EXCEPT !.yields = Append(@, CTMRGout(locals.sweep, locals.max_dsv))]
    /\ UNCHANGED engineVars

\* the consumer asks for the next value after the final yield
CtmReturn ==
    /\ pc = "last"
    /\ pc' = "done"
    /\ UNCHANGED <<locals, engineVars>>

Optional(S) == {<<>>} \cup {<<x>> : x \in S}

InitCtm ==
    /\ NoEngine
    /\ pc = "loop"
    /\ \E max_sweeps \in 0..MaxCtmSweeps, iterator_step \in Optional(0..MaxStep),
          opts_svd \in OptsSvd, corner_tol \in Optional(0..MaxTol) :
          locals = CtmArgs(max_sweeps, iterator_step, opts_svd, corner_tol)

NextCtm ==
    \/ \E dsv \in 0..MaxTol : CtmSweep(dsv)
    \/ CtmResume
    \/ CtmFinal
    \/ CtmReturn

SpecCtm == InitCtm /\ [][NextCtm]_vars

\* the consumer iterates the generator until it is exhausted
SpecCtmRun == SpecCtm /\ WF_vars(NextCtm)

\* ------------------------------------------- fpeps tu_single_optimization
\* Errors are levels 0..MaxErr, far apart compared with the 1e-13 of the
\* convergence test.  MA and MB are "guess" or "new"; locals.pair is the
\* truncation error of the pair (MA, MB) the routine holds, which is the
\* error2 optimal_pinv reports for the matrix it has just solved for.
Errors == 0..MaxErr

Abs(x) == IF x < 0 THEN -x ELSE x

Max2(x, y) == IF x < y THEN y ELSE x

TuArgs(svd_error2, max_iter) ==
    [svd_error2 |-> svd_error2, max_iter |-> max_iter, i |-> 0,
     MA |-> "guess", MB |-> "guess", pair |-> svd_error2,
     old_A |-> 0, old_B |-> 0, epsilon1 |-> 0, epsilon2 |-> 0,
     count1 |-> 0, count2 |-> 0, truncation_error2 |-> <<>>, ret |-> <<>>, err |-> ""]

\* for _ in range(max_iter)
TuNext ==
    /\ pc = "for"
    /\ IF locals.i < locals.max_iter
       THEN pc' = "A" /\ locals' = [locals EXCEPT !.i = @ + 1]
       ELSE pc' = "return" /\ UNCHANGED locals
    /\ UNCHANGED engineVars

\* fix MB and optimize MA: optimal_pinv reports error2; e is the error of
\* (MA_guess, MB) when MA is put back
TuHalfA(error2, e) ==
    /\ pc = "A"
    /\ pc' = "B"
    /\ locals' =
          IF error2 >= locals.svd_error2
          THEN [locals EXCEPT !.truncation_error2 = <<error2>>, !.MA = "guess",
                              !.pair = IF locals.MB = "guess" THEN locals.svd_error2 ELSE e,
                              !.epsilon1 = 0, !.old_A = 0, !.count1 = 1, !.count2 = 0]
          ELSE [locals EXCEPT !.truncation_error2 = <<error2>>, !.MA = "new", !.pair = error2,
                              !.epsilon1 = Abs(locals.old_A - error2), !.old_A = error2,
                              !.count1 = 0, !.count2 = 0]
    /\ UNCHANGED engineVars

\* fix MA and optimize MB, then the two tests that leave the loop; e is the
\* error of (MA, MB_guess) when MB is put back
TuHalfB(error2, e) ==
    /\ pc = "B"
    /\ LET L == IF error2 >= locals.svd_error2
                THEN [locals EXCEPT !.truncation_error2 = <<error2>>, !.MB = "guess",
                                    !.pair = IF locals.MB = "guess" THEN locals.pair ELSE e,
                                    !.epsilon2 = 0, !.old_B = 0, !.count2 = 1]
                ELSE [locals EXCEPT !.truncation_error2 = <<error2>>, !.MB = "new", !.pair = error2,
                                    !.epsilon2 = Abs(locals.old_B - error2), !.old_B = error2]
       IN  /\ locals' = L
           /\ pc' = IF L.count1 + L.count2 > 0 THEN "return"
                    ELSE IF Max2(L.epsilon1, L.epsilon2) = 0 THEN "return"
                    ELSE "for"
    /\ UNCHANGED engineVars

\* return MA, MB, truncation_error2, optimal_pinv_cutoff
TuReturn ==
    /\ pc = "return"
    /\ IF locals.truncation_error2 = <<>>
       THEN pc' = "raised" /\ locals' = [locals EXCEPT !.err = "UnboundLocalError"]
       ELSE /\ pc' = "done"
            /\ locals' = [locals EXCEPT !.ret = <<locals.MA, locals.MB, locals.truncation_error2[1]>>]
    /\ UNCHANGED engineVars

InitTu ==
    /\ NoEngine
    /\ pc = "for"
    /\ \E svd_error2 \in Errors, max_iter \in 0..MaxIter : locals = TuArgs(svd_error2, max_iter)

NextTu ==
    \/ TuNext
    \/ \E error2 \in Errors, e \in Errors : TuHalfA(error2, e)
    \/ \E error2 \in Errors, e \in Errors : TuHalfB(error2, e)
    \/ TuReturn

SpecTu == InitTu /\ [][NextTu]_vars

\* ----------------------------------------------------------- properties
InitF == IF variant = "Env2" THEN Env2Init(bra, ket) ELSE Env3Init(bra, op, ket)

Fresh == [F |-> InitF, Fort |-> ProjectorInit(bra, ort), err |-> ""]

Terminals == {<<-1, 0>>, <<bra.N, bra.N - 1>>}

SeqRange(q) == {q[i] : i \in DOMAIN q}

\* C1: in every state reachable through update_env_, setup_ and clear_site_
\* with sites in 0..N-1, the main cache holds both terminal bonds (-1, 0) and
\* (N, N-1), and they still hold the tensors written at construction.
C1_TerminalsKept ==
    \A t \in Terminals : Has(F, t) /\ F[t] = InitF[t]

C1_Witness ==
    /\ lastOp.op = "clear_site_"
    /\ lastOp.sites = <<0, bra.N - 1>>
    /\ bra.N >= 2
    /\ \E n \in Sites : Has(F, <<n + 1, n>>) /\ n + 1 \in Sites

\* C2: update_env_(n, to) raises the missing-bond error exactly when the
\* predecessor bond (n-1, n) for 'last', (n+1, n) for 'first', is not cached,
\* and a failing call writes nothing: the predecessor is not recomputed.
C2_FailsIffMissing ==
    [][lastOp'.op = "update_env_" =>
          /\ lastOp'.err \in {"", "KeyError"}
          /\ (lastOp'.err = "KeyError") <=> ~Has(F, Pred(lastOp'.n, lastOp'.to))
          /\ lastOp'.err = "KeyError" => (F' = F /\ Fort' = Fort)
          /\ lastOp'.err = "" => Has(F', Succ(lastOp'.n, lastOp'.to))]_vars

C2_Witness ==
    /\ lastOp.op = "update_env_"
    /\ lastOp.err = "KeyError"
    /\ ~Has(F, Pred(lastOp.n, lastOp.to))
    /\ Len(ort) > 0

\* C3: after update_env_ at sites 0..n toward 'last' from a fresh engine the
\* cache holds (m, m+1) for 0 <= m <= n; after sites N-1..n toward 'first' it
\* holds (m, m-1) for n <= m <= N-1; after setup_(to) it holds the entry of
\* every site.
C3_SweepPopulates ==
    /\ (trace.kind = "sweep" /\ trace.to = "last") =>
          \A m \in 0..trace.n : Has(F, <<m, m + 1>>)
    /\ (trace.kind = "sweep" /\ trace.to = "first") =>
          \A m \in trace.n..(bra.N - 1) : Has(F, <<m, m - 1>>)
    /\ lastOp.op = "setup_" =>
          /\ lastOp.err = ""
          /\ \A m \in Sites : Has(F, Succ(m, lastOp.to))

C3_Witness ==
    /\ trace.kind = "sweep"
    /\ trace.to = "first"
    /\ trace.n = 1
    /\ bra.N = MaxN

\* C4: clear_site_(*sites) removes exactly the entries (n, n-1) and (n, n+1)
\* of every given site n, leaves every other entry of the main cache as it
\* was, and raises nothing when an entry is already absent.
C4_ClearRemovesOwnBonds ==
    [][lastOp'.op = "clear_site_" =>
          LET gone == UNION {{<<n, n - 1>>, <<n, n + 1>>} : n \in SeqRange(lastOp'.sites)}
          IN  /\ DOMAIN F' = (DOMAIN F) \ gone
              /\ \A k \in DOMAIN F' : F'[k] = F[k]
              /\ lastOp'.err = ""]_vars

C4_Witness ==
    /\ lastOp.op = "clear_site_"
    /\ \E n \in SeqRange(lastOp.sites) :
          /\ Has(F, <<n - 1, n>>)
          /\ Has(F, <<n + 1, n>>)
          /\ n - 1 \in Sites
          /\ n + 1 \in Sites

\* C5: on an unchanged chain whose cache was populated by setup_(to=d),
\* clear_site_(n) followed by update_env_(n, to=d) stores at the bond leaving
\* n in direction d exactly the tensor a from-scratch setup_(to=d) stores.
C5_RecomputeEqualsSetup ==
    trace.kind = "redone" =>
        LET k == Succ(trace.n, trace.to)
            scratch == setup(Fresh, trace.to)
        IN  /\ scratch.err = ""
            /\ Has(scratch.F, k)
            /\ Has(F, k)
            /\ F[k] = scratch.F[k]

C5_Witness ==
    /\ trace.kind = "redone"
    /\ trace.n = 1
    /\ bra.N = MaxN
    /\ F[Succ(trace.n, trace.to)] # InitF[<<-1, 0>>]

\* the overlap <bra|ket> summed configuration by configuration, without
\* any boundary tensor: the amplitude of a configuration is the product of
\* the site matrices it selects
RECURSIVE Pow(_, _)
Pow(b, e) == IF e = 0 THEN 1 ELSE b * Pow(b, e - 1)

Digit(c, n) == ((c \div Pow(PhysDim, n)) % PhysDim) + 1

RECURSIVE Amplitude(_, _, _, _)
Amplitude(psi, c, n, v) ==
    IF n = psi.N
    THEN v[1]
    ELSE LET A == site(psi, n)
         IN  Amplitude(psi, c, n + 1,
                 [r \in 1..A.shape[3] |->
                     CSumTo([l \in 1..A.shape[1] |-> CMul(v[l], A.val[<<l, Digit(c, n), r>>])],
                            A.shape[1])])

DirectOverlap(b, k) ==
    CSumTo([c \in 1..Pow(PhysDim, b.N) |->
              CMul(CConj(Amplitude(b, c - 1, 0, <<COne>>)), Amplitude(k, c - 1, 0, <<COne>>))],
           Pow(PhysDim, b.N))

\* C6: for Env2 and N in {1, 2, 6}, after a full sweep to 'last' and a full
\* sweep to 'first', measure at every bond (n, n+1), -1 <= n <= N-1, returns
\* the direct contraction of all bra and ket site tensors times
\* bra.factor * ket.factor, hence the same value at every bond.
C6_MeasureEqualsDirect ==
    (/\ trace = Tr("back", "first", 0)
     /\ lastOp.op = "measure"
     /\ lastOp.bd[2] = lastOp.bd[1] + 1) =>
        /\ lastOp.err = ""
        /\ ToNumber(lastOp.ret) = CMul(CMul(bra.factor, ket.factor), DirectOverlap(bra, ket))

C6_Witness ==
    /\ trace = Tr("back", "first", 0)
    /\ bra.N = MaxSweepN
    /\ bra.g # ket.g
    /\ lastOp.op = "measure"
    /\ lastOp.bd = <<2, 3>>
    /\ lastOp.err = ""
    /\ ToNumber(lastOp.ret) # CZero

\* C8 (the references in list order, every overlap taken with the candidate
\* as already reduced by the earlier references): the result is
\* A - sum_i x_i c_i with x_i = <c_i, A> - sum_{j<i} x_j <c_i, c_j>.
RECURSIVE Coef(_, _, _)
Coef(cached, A, i) ==
    LET prior == [j \in 1..(i - 1) |-> CMul(Coef(cached, A, j), vdot(cached[i], cached[j]))]
    IN  CAdd(vdot(cached[i], A), CNeg(CSumTo(prior, i - 1)))

SequentialResult(cached, A) ==
    Tensor(A.shape, [t \in Idx(A.shape) |->
        CAdd(A.val[t],
             CNeg(CSumTo([i \in 1..Len(cached) |-> CMul(Coef(cached, A, i), cached[i].val[t])],
                         Len(cached))))])

SimultaneousResult(cached, A) ==
    Tensor(A.shape, [t \in Idx(A.shape) |->
        CAdd(A.val[t],
             CNeg(CSumTo([i \in 1..Len(cached) |-> CMul(vdot(cached[i], A), cached[i].val[t])],
                         Len(cached))))])

Reversed(q) == [i \in 1..Len(q) |-> q[Len(q) - i + 1]]

C8_SequentialFold ==
    lastOp.op = "_project_ort" =>
        /\ lastOp.err = ""
        /\ out = SequentialResult(Aort, cand)

C8_Witness ==
    /\ lastOp.op = "_project_ort"
    /\ Len(Aort) = 2
    /\ out = SequentialResult(Aort, cand)
    /\ out # SimultaneousResult(Aort, cand)
    /\ out # project_ort(Reversed(Aort), Len(ort), cand).ret

\* C9: the output of _project_ort has zero inner product with the
\* last-processed cached projection, whatever the candidate and the list.
C9_OrthogonalToLast ==
    (lastOp.op = "_project_ort" /\ Len(Aort) >= 1) =>
        vdot(Aort[Len(Aort)], out) = CZero

\* C10: with exactly one reference whose cached projection is a scalar
\* multiple of the candidate, _project_ort returns the zero tensor.
Parallel(c, A) ==
    \E x \in Vals \ {CZero} : c = Scale(x, A) \/ A = Scale(x, c)

Zero(shape) == Tensor(shape, [t \in Idx(shape) |-> CZero])

C10_ParallelGivesZero ==
    (lastOp.op = "_project_ort" /\ Len(Aort) = 1 /\ Parallel(Aort[1], cand)) =>
        out = Zero(cand.shape)

\* C7: for every variant and every n1 < n2 = n1 + 1, Heff2 called with
\* (n1, n2) and with (n2, n1) reads the same two entries, (n1-1, n1) and
\* (n2+1, n2), and returns the same tensor.
C7_BondOrderInvariant ==
    lastOp.op = "Heff2" =>
        LET n1 == IF lastOp.bd[1] < lastOp.bd[2] THEN lastOp.bd[1] ELSE lastOp.bd[2]
            n2 == n1 + 1
            asc == heff2(cand, <<n1, n2>>)
        IN  /\ SeqRange(lastOp.reads) \subseteq {<<n1 - 1, n1>>, <<n2 + 1, n2>>}
            /\ lastOp.err = asc.err
            /\ lastOp.ret = asc.ret

\* the sandwich variant alone does normalise the bond
C7_SandwichOrderInvariant == variant # "Env2" => C7_BondOrderInvariant

\* the contraction that Heff1 / Heff2 of the operator sandwich hands to its
\* closing projection, recomputed from the candidate and the cache
Contraction ==
    LET p0 == project_ort(Aort, Len(ort), cand).ret
        n == lastOp.n
        n1 == IF lastOp.bd[1] < lastOp.bd[2] THEN lastOp.bd[1] ELSE lastOp.bd[2]
    IN  IF lastOp.op = "Heff1"
        THEN Heff1_tmp(p0, F[<<n + 1, n>>], F[<<n - 1, n>>], site_op(op, n))
        ELSE Heff2_tmp(p0, F[<<n1 + 2, n1 + 1>>], F[<<n1 - 1, n1>>],
                       site_op(op, n1), site_op(op, n1 + 1))

Through(Fb, C, Fib) ==
    Tensor(<<Fb.shape[1], Fib.shape[3]>>,
      [t \in Idx(<<Fb.shape[1], Fib.shape[3]>>) |->
         CSumTo([w \in 1..Fb.shape[2] |->
           CSumTo([x \in 1..C.shape[1] |->
             CSumTo([y \in 1..C.shape[2] |->
               CMul(CMul(Fb.val[<<t[1], w, x>>], C.val[<<x, y>>]), Fib.val[<<y, w, t[2]>>])],
               C.shape[2])], C.shape[1])], Fb.shape[2])])

\* C12: Heff0 returns the contraction of the two boundary tensors of the bond
\* through C times bra.factor * op.factor * ket.factor, the factor of measure.
C12_Heff0AggregateFactor ==
    (variant # "Env2" /\ lastOp.op = "Heff0" /\ lastOp.err = "") =>
        LET b == IF lastOp.bd[2] < lastOp.bd[1] THEN Rev(lastOp.bd) ELSE lastOp.bd
        IN  lastOp.ret = Scale(factor, Through(F[b], cand, F[Rev(b)]))

\* the boundary entries an effective-operator call needs
Needed ==
    LET n == lastOp.n
        bd == lastOp.bd
    IN  CASE lastOp.op = "Heff1" -> {<<n - 1, n>>, <<n + 1, n>>}
          [] lastOp.op = "Heff2" -> {<<bd[1] - 1, bd[1]>>, <<bd[2] + 1, bd[2]>>}
          [] OTHER -> {bd, Rev(bd)}

EqualLengths ==
    /\ ket.N = bra.N
    /\ variant # "Env2" => op.N = bra.N /\ \A ii \in 1..Len(ort) : ort[ii].N = bra.N

\* C14: a constructor of any variant raises, and leaves no engine, whenever
\* the site counts of bra, ket, operator and references are not all equal.
C14_MismatchRejected ==
    (lastOp.op = "__init__" /\ ~EqualLengths) => (lastOp.err # "" /\ F = <<>>)

\* C15: a constructor of any variant handed chains of one length N completes
\* without error and leaves exactly (-1, 0) and (N, N-1) in the main cache.
C15_EqualLengthsConstruct ==
    (lastOp.op = "__init__" /\ EqualLengths) => (lastOp.err = "" /\ DOMAIN F = Terminals)

C17_DefaultMeasure ==
    [][/\ (lastOp'.op = "measure" /\ lastOp'.bd = <<-1, 0>>) =>
             /\ lastOp'.err = "" <=> Has(F', <<0, -1>>)
             /\ lastOp'.err \in {"", "KeyError"}
             /\ F' = setup(Fresh, "last").F => lastOp'.err = "KeyError"
       /\ (lastOp'.op = "setup_" /\ lastOp'.to = "first" /\ lastOp'.err = "") =>
             Has(F', <<0, -1>>)
       /\ trace' = Tr("sweep", "first", 0) => Has(F', <<0, -1>>)
       /\ (Has(F, <<0, -1>>) /\ ~Has(F', <<0, -1>>)) =>
             (lastOp'.op = "clear_site_" /\ 0 \in SeqRange(lastOp'.sites))]_vars

C17_Witness ==
    /\ lastOp.op = "measure"
    /\ lastOp.bd = <<-1, 0>>
    /\ lastOp.err = ""
    /\ trace = Tr("cleared", "first", 1)
    /\ ~Has(F, <<1, 0>>)

\* the bond at which a completed sweep toward `to` ends
Reached(to) == IF to = "last" THEN <<bra.N - 1, bra.N>> ELSE <<-1, 0>>

\* C18: over a normalized product state as bra and ket, the identity
\* operator chain and factors 1, measure at the boundary reached by the
\* sweep returns 1 after setup_(to='last') and after setup_(to='first').
C18_ProductMeasuresOne ==
    (/\ lastOp.op = "measure"
     /\ trace.kind = "setup"
     /\ lastOp.bd \in {Reached(trace.to), Rev(Reached(trace.to))}) =>
        (lastOp.err = "" /\ lastOp.ret = Scalar(COne))

C18_Witness ==
    /\ variant = "Env_mps_mpo_mps"
    /\ bra.N = 2
    /\ lastOp.op = "measure"
    /\ trace = Tr("setup", "last", 0)
    /\ lastOp.bd = Reached("last")
    /\ lastOp.ret = Scalar(COne)

\* C19: whenever Heff1(A, n) applies deflation, the cached local projections
\* it uses are the ones update_Aort_(n) computes for that same site from the
\* reference boundaries now cached.
C19_ProjectionsCurrent ==
    (lastOp.op = "Heff1" /\ lastOp.err = "" /\ Len(ort) > 0) =>
        (update_Aort(lastOp.n).err = "" /\ Aort = update_Aort(lastOp.n).Aort)

\* cache G is cache H with bond k written and every other entry as it was
WritesOnly(G, H, k) ==
    /\ DOMAIN G = (DOMAIN H) \cup {k}
    /\ \A x \in (DOMAIN H) \ {k} : G[x] = H[x]

\* C20: a successful update_env_(n, to) writes the one entry (n, n+1) or
\* (n, n-1) of the main cache and the same bond of every reference's cache
\* and leaves every other entry as it was; Heff0, Heff1, Heff2, measure and
\* factor write no cache entry.
C20_OneEntryWritten ==
    [][/\ (lastOp'.op = "update_env_" /\ lastOp'.err = "") =>
             LET k == Succ(lastOp'.n, lastOp'.to)
             IN  /\ WritesOnly(F', F, k)
                 /\ Len(Fort') = Len(Fort)
                 /\ \A ii \in 1..Len(Fort) : WritesOnly(Fort'[ii], Fort[ii], k)
       /\ lastOp'.op \in {"Heff0", "Heff1", "Heff2", "measure", "factor"} =>
             (F' = F /\ Fort' = Fort)]_vars

C20_Witness ==
    /\ lastOp.op = "update_env_"
    /\ lastOp.err = ""
    /\ Len(Fort) = MaxRefs
    /\ lastOp.n = 1
    /\ lastOp.to = "first"
    /\ \A ii \in 1..Len(Fort) : Has(Fort[ii], <<1, 0>>) /\ ~Has(Fort[ii], <<0, 1>>)
    /\ DOMAIN F = Terminals \cup {<<1, 0>>}

\* C21: on an engine with reference states, after clear_site_(n) neither F
\* nor any Fort[i] holds (n, n-1) or (n, n+1), and F and every Fort[i] hold
\* the same set of bonds in every reachable state.
C21_ReferenceCachesCleared ==
    Len(ort) > 0 =>
        /\ lastOp.op = "clear_site_" =>
              \A n \in SeqRange(lastOp.sites), ii \in 1..Len(Fort) :
                  /\ ~Has(F, <<n, n - 1>>) /\ ~Has(F, <<n, n + 1>>)
                  /\ ~Has(Fort[ii], <<n, n - 1>>) /\ ~Has(Fort[ii], <<n, n + 1>>)
        /\ \A ii \in 1..Len(Fort) : DOMAIN Fort[ii] = DOMAIN F

\* C22: enlarge_bond returns False, reading no site tensor, for every bond
\* of adjacent indices with an endpoint outside 0..N-1, in either order.
C22_OutsideBondNotEnlarged ==
    (/\ lastOp.op = "enlarge_bond"
     /\ (lastOp.bd[1] \notin Sites \/ lastOp.bd[2] \notin Sites)) =>
        (lastOp.err = "" /\ lastOp.ret = BoolT(FALSE) /\ lastOp.reads = <<>>)

\* the gates of a list of n gates of one kind, in list order and reversed
InOrder(kind, n) == [j \in 1..n |-> <<kind, j>>]

Backward(kind, n) == [j \in 1..n |-> <<kind, n - j + 1>>]

\* C23: evolution_step_ applies the local gates in list order, then the
\* nearest-neighbour gates in list order and, with symmetrize, the
\* nearest-neighbour gates in reverse order followed by the local gates in
\* reverse order; it truncates len(gates.nn) times, or twice that with
\* symmetrize.
C23_PalindromicOrder ==
    pc = "done" =>
        LET half == InOrder("local", locals.nl) \o InOrder("nn", locals.nn)
            back == Backward("nn", locals.nn) \o Backward("local", locals.nl)
        IN  /\ locals.log = IF locals.symmetrize THEN half \o back ELSE half
            /\ Len(locals.infos) = IF locals.symmetrize THEN 2 * locals.nn ELSE locals.nn

C23_Witness ==
    /\ pc = "done"
    /\ locals.symmetrize
    /\ locals.nl = 2
    /\ locals.nn = 2
    /\ locals.log = <<<<"local", 1>>, <<"local", 2>>, <<"nn", 1>>, <<"nn", 2>>,
                      <<"nn", 2>>, <<"nn", 1>>, <<"local", 2>>, <<"local", 1>>>>

\* the fermionic part of the product of two charges
FermionicProduct(n0, n1, fss) ==
    (IF fss.kind = "True" \/ fss.mask[1] THEN n0[1] * n1[1] ELSE 0)
    + (IF fss.kind = "True" \/ fss.mask[2] THEN n0[2] * n1[2] ELSE 0)

\* the pairs i < j of arguments whose site i comes strictly after site j
Inversions(sites) ==
    {p \in (1..Len(sites)) \X (1..Len(sites)) : p[1] < p[2] /\ sites[p[1]] > sites[p[2]]}

RECURSIVE SumOver(_, _, _)
SumOver(P, charges, fss) ==
    IF P = {} THEN 0
    ELSE LET p == CHOOSE x \in P : TRUE
         IN  FermionicProduct(charges[p[1]], charges[p[2]], fss) + SumOver(P \ {p}, charges, fss)

\* C24: for a fermionic config sign_canonical_order is (-1) to the sum, over
\* the pairs i < j with site i strictly after site j, of the fermionic
\* product n_i * n_j; it is +1 for sites in non-decreasing order, never
\* swaps operators of one site, is always +1 or -1, and is +1 for a
\* non-fermionic config or no operators.
C24_SignOfInversions ==
    pc = "done" =>
        LET parity == SumOver(Inversions(locals.sites), locals.charges, locals.fss) % 2
        IN  /\ locals.ret \in {1, -1}
            /\ (locals.fss.kind = "False" \/ Len(locals.charges) = 0) => locals.ret = 1
            /\ locals.fss.kind # "False" => locals.ret = IF parity = 0 THEN 1 ELSE -1
            /\ Inversions(locals.sites) = {} => locals.ret = 1

C24_Witness ==
    /\ pc = "done"
    /\ locals.fss.kind = "True"
    /\ locals.sites = <<2, 1, 1>>
    /\ locals.charges = <<<<1, 0>>, <<1, 0>>, <<1, 0>>>>
    /\ locals.ret = 1

\* entry k of F exists and was contracted from the site tensors as they are now
Current(k) ==
    /\ Has(F, k)
    /\ Has(locals.stamp, k)
    /\ locals.stamp[k] = CurrentStamp(k, locals.ver)

\* C25: in the sweep protocol every entry Heff1 reads at the cursor,
\* (n-1, n) and (n+1, n), was computed from the current site tensors, with
\* or without clear_site_(n) before update_env_(n, to).
C25_NoStaleRead ==
    (pc = "replace" /\ lastOp.op = "Heff1") =>
        /\ lastOp.reads \in {<<<<lastOp.n + 1, lastOp.n>>, <<lastOp.n - 1, lastOp.n>>>>,
                             <<<<lastOp.n - 1, lastOp.n>>, <<lastOp.n + 1, lastOp.n>>>>}
        /\ Current(<<lastOp.n - 1, lastOp.n>>)
        /\ Current(<<lastOp.n + 1, lastOp.n>>)

C25_Witness ==
    /\ pc = "replace"
    /\ lastOp.op = "Heff1"
    /\ bra.N = 3
    /\ locals.n = 1
    /\ locals.to = "first"
    /\ locals.sweeps = 1
    /\ locals.ver = [x \in 0..2 |-> IF x = 0 THEN 1 ELSE 2]
    /\ Has(F, <<1, 0>>)
    /\ ~Current(<<1, 0>>)

\* every bond of the main cache is a bond of every reference cache
FortCovers == \A ii \in 1..Len(ort) : DOMAIN F \subseteq DOMAIN Fort[ii]

\* C26: on an engine with reference states a call of update_env_ that raises
\* has modified neither the main cache nor any reference cache; a reference
\* cache update cannot fail after the main cache was written, every bond of
\* the main cache being a bond of each reference cache.
C26_AllOrNothing ==
    /\ [](ort # <<>> => FortCovers)
    /\ [][(ort # <<>> /\ lastOp'.op = "update_env_" /\ lastOp'.err # "")
            => (F' = F /\ Fort' = Fort /\ lastOp'.err = "KeyError")]_vars

C26_Witness ==
    /\ ort # <<>>
    /\ lastOp.op = "update_env_"
    /\ lastOp.err = "KeyError"
    /\ lastOp.to = "last"
    /\ ~Has(F, <<lastOp.n - 1, lastOp.n>>)
    /\ \A ii \in 1..Len(ort) : Has(Fort[ii], <<lastOp.n - 1, lastOp.n>>)

\* C27: setup_(to) raises no error in any state reached through update_env_,
\* setup_ and clear_site_ with sites 0..N-1, with or without references.
C27_SetupCompletes ==
    lastOp.op = "setup_" =>
        /\ lastOp.err = ""
        /\ \A n \in Sites : Has(F, Succ(n, lastOp.to))
        /\ \A ii \in 1..Len(ort) : \A n \in Sites : Has(Fort[ii], Succ(n, lastOp.to))

C27_Witness ==
    /\ lastOp.op = "setup_"
    /\ lastOp.to = "first"
    /\ lastOp.err = ""
    /\ ort # <<>>
    /\ bra.N = 2
    /\ Has(F, <<1, 2>>)
    /\ ~Has(F, <<0, 1>>)

\* the sweeps fields of the values yielded so far increase strictly
Increasing(ys) == \A i \in 1..(Len(ys) - 1) : ys[i].sweeps < ys[i + 1].sweeps

CtmEnded == pc \in {"last", "done"}

\* C28: for max_sweeps >= 1 ctmrg_ terminates after at most max_sweeps calls
\* of env.update_, its last value is a CTMRGout whose sweeps field is the
\* number of calls made, the sweeps fields yielded increase strictly, and it
\* ends before max_sweeps only when corner_tol is set and the max_dsv of an
\* even sweep is below it.
C28_TerminatesWithFinal ==
    /\ [](locals.max_sweeps >= 1 =>
            /\ pc # "raised"
            /\ locals.updates <= locals.max_sweeps
            /\ Increasing(locals.yields)
            /\ CtmEnded =>
                  /\ locals.yields # <<>>
                  /\ locals.yields[Len(locals.yields)].sweeps = locals.updates
                  /\ locals.updates < locals.max_sweeps =>
                        /\ Truthy(locals.corner_tol)
                        /\ locals.sweep % 2 = 0
                        /\ locals.max_dsv # <<>>
                        /\ locals.max_dsv[1] < locals.corner_tol[1])
    /\ (locals.max_sweeps >= 1) ~> (pc = "done")

\* the sweeps after which the loop went on: all but a sweep that broke out,
\* raised or was the last one
WentOn(s) ==
    /\ s <= locals.sweep
    /\ s = locals.sweep => pc \in {"loop", "yielded"}

\* C29: with iterator_step = k > 0 an intermediate CTMRGout is yielded after
\* every sweep s with s % k = 0 and s < max_sweeps that did not trigger
\* convergence, whether or not corner_tol is set.
C29_YieldsEveryKth ==
    Truthy(locals.iterator_step) =>
        \A s \in 1..(locals.max_sweeps - 1) :
            (WentOn(s) /\ s % locals.iterator_step[1] = 0)
                => \E i \in 1..Len(locals.yields) : locals.yields[i].sweeps = s

\* an iteration that ends the loop: a matrix was put back, or neither error
\* changed
Stopping == locals.count1 + locals.count2 > 0 \/ Max2(locals.epsilon1, locals.epsilon2) = 0

\* C30: for max_iter >= 1 tu_single_optimization makes at most max_iter
\* iterations, leaves the loop at the first iteration in which a matrix was
\* put back or both error changes vanish, and returns a truncation_error2
\* that is the error of the returned pair and is not above svd_error2.
C30_ReturnedError ==
    locals.max_iter >= 1 =>
        /\ locals.i <= locals.max_iter
        /\ pc # "raised"
        /\ (pc = "for" /\ locals.i >= 1) => ~Stopping
        /\ (pc \in {"return", "done"} /\ locals.i < locals.max_iter) => Stopping
        /\ pc = "done" =>
              /\ locals.ret[3] = locals.pair
              /\ locals.ret[3] <= locals.svd_error2

====
